---- MODULE Spec2Model ----
(***************************************************************************)
(* Model of the loan-search core of huseyindol/loanSearchMcp:              *)
(*   - the AI provider adapters (OpenAIProvider, ClaudeProvider, the mock  *)
(*     adapter), AIProviderFactory and the NaturalLanguageService facade;  *)
(*   - SearchLoansUseCase.execute with the value objects, the Loan entity  *)
(*     and LoanCalculationService it uses, and the two older               *)
(*     LoanSearchTool.searchLoans variants;                                *)
(*   - getDiagnostics of the two SDK adapters, and Money, Loan and         *)
(*     LoanCalculationService called directly.                             *)
(*                                                                         *)
(* JavaScript values are encoded as follows.  null / undefined of a string *)
(* field is the string "null", of a numeric field the number NullNum.      *)
(* confidence is kept in hundredths (0.1 is 10, 0.8 is 80).  NaN is the    *)
(* number NaN and every comparison goes through Lt / Gt, which are false   *)
(* as soon as one side is NaN, as in IEEE-754.                             *)
(***************************************************************************)
EXTENDS Integers, Sequences, FiniteSets, TLC

\* ------------------------------------------------------------------------
\* Bounds of the model
\* ------------------------------------------------------------------------
MaxCalls == 2

Calls == 1..MaxCalls

\* ------------------------------------------------------------------------
\* Types (types/index.ts of the AI provider architecture)
\* ------------------------------------------------------------------------
CLAUDE == "claude"
OPENAI == "openai"
MOCK == "mock"

AIProviderType == {CLAUDE, OPENAI, MOCK}

TURKISH == "tr"
ENGLISH == "en"
ARABIC == "ar"

SupportedLanguage == {TURKISH, ENGLISH, ARABIC}

Null == "null"
NullNum == -1

\* "no provider type named" (an omitted optional argument)
Unnamed == "undefined"

VARIABLES
  env,                    \* process.env and the runtime: which credentials are present,
                          \*   does the SDK client constructor succeed
  currentProvider,        \* NaturalLanguageService.currentProvider (its type, or Null)
  preferredProviderType,  \* NaturalLanguageService.preferredProviderType
  language,               \* NaturalLanguageService.language
  calls,                  \* the NaturalLanguageService.parseQuery calls in progress
  last,                   \* the NaturalLanguageService.parseQuery call that returned in the
                          \*   step just taken (NoLast in every other state)
  run,                    \* one adapter.parseQuery run: its inputs and its outcome
  search,                 \* one search request: its inputs and its response
  calc,                   \* one call on the loan domain (Money, Loan,
                          \*   LoanCalculationService): its inputs and its result
  factory,                \* AIProviderFactory's cache, the adapters it made and their calls in flight
  entity,                 \* a Loan and its Bank: the fields of the two entities and the last operation on them
  tls                     \* HousingLoanService: NODE_TLS_REJECT_UNAUTHORIZED and the makeApiRequest calls

nlVars == <<currentProvider, preferredProviderType, language, calls, last>>
vars == <<env, currentProvider, preferredProviderType, language, calls, last, run, search, calc, factory, entity, tls>>

\* ------------------------------------------------------------------------
\* Inputs: query texts and what a backend call can do
\* ------------------------------------------------------------------------
\* A query text as the adapters see it: a string with the features the mock
\* adapter tests for, or a value that is not a string at run time.
Texts ==
  [kind : {"string"}, hasKredi : BOOLEAN, hasDigit : BOOLEAN, hasTerm : BOOLEAN]
    \cup [kind : {"undefined", "number"}, hasKredi : {FALSE}, hasDigit : {FALSE}, hasTerm : {FALSE}]

\* The JSON object a backend answered with.  A missing key is Null / NullNum.
FullBody ==
  [creditType |-> "Konut", amount |-> 2000000, term |-> 60, confidence |-> 95,
   reasoning |-> "model reasoning", hasInfo |-> TRUE, hasUncertainties |-> TRUE,
   isLoanQuery |-> "true"]

EmptyBody ==
  [creditType |-> Null, amount |-> NullNum, term |-> NullNum, confidence |-> NullNum,
   reasoning |-> Null, hasInfo |-> FALSE, hasUncertainties |-> FALSE,
   isLoanQuery |-> Null]

NotLoanBody ==
  [creditType |-> Null, amount |-> NullNum, term |-> NullNum, confidence |-> 90,
   reasoning |-> "model reasoning", hasInfo |-> TRUE, hasUncertainties |-> TRUE,
   isLoanQuery |-> "false"]

\* a reply whose confidence is 1.5
OverconfidentBody == [FullBody EXCEPT !.confidence = 150]

JsonBodies == {FullBody, EmptyBody, NotLoanBody, OverconfidentBody}

\* HTTP statuses an APIError can carry; 0 is an APIError without a status
\* (the SDKs' APIConnectionError and APIConnectionTimeoutError).
Statuses == {0, 400, 401, 403, 404, 418, 422, 429, 500, 503}

\* What the error message contains, as far as the code looks at it.
\*   "connection" is the SDK's 'Connection error.', "timeout" its
\*   'Request timed out.'; neither contains 'fetch' or 'network'.
Replies ==
  [kind : {"json"}, status : {0}, msg : {"none"}, body : JsonBodies]
    \cup [kind : {"text"}, status : {0}, msg : {"none", "kredi"}, body : {EmptyBody}]
    \cup [kind : {"apierror"}, status : Statuses \ {0}, msg : {"none", "credit balance"}, body : {EmptyBody}]
    \cup [kind : {"apierror"}, status : {0}, msg : {"connection", "timeout"}, body : {EmptyBody}]
    \cup [kind : {"error"}, status : {0}, msg : {"fetch", "network", "none"}, body : {EmptyBody}]

\* process.env as far as the code reads it, and whether  new OpenAI(...) /
\* new Anthropic(...)  succeeds in this runtime
Envs == [openaiKey : BOOLEAN, anthropicKey : BOOLEAN, sdkOk : BOOLEAN]

\* ------------------------------------------------------------------------
\* BaseAIProvider
\* ------------------------------------------------------------------------
EmptyInfo ==
  [detectedPhrases |-> <<>>, amountPhrase |-> Null, termPhrase |-> Null, creditTypePhrase |-> Null]

\* JavaScript  x || null  on a numeric key: undefined, null and 0 give null
OrNullNum(x) == IF x = NullNum \/ x = 0 THEN NullNum ELSE x

\* the "failed state" object both SDK adapters return from their catch block
FailedState(errType, ptype) ==
  [creditType |-> Null, amount |-> NullNum, term |-> NullNum, confidence |-> 0,
   reasoning |-> errType, extractedInfo |-> EmptyInfo,
   uncertainties |-> <<errType>>, isLoanQuery |-> FALSE, provider |-> ptype]

\* BaseAIProvider.parseResponse without its catch block: the SyntaxError of
\* JSON.parse reaches the catch of parseQuery, which classifies it
parseResponse_nocatch(reply, ptype) ==
  IF reply.kind = "json"
  THEN [creditType |-> reply.body.creditType,
        amount |-> OrNullNum(reply.body.amount),
        term |-> OrNullNum(reply.body.term),
        confidence |-> IF reply.body.confidence = NullNum THEN 0 ELSE reply.body.confidence,
        reasoning |-> IF reply.body.reasoning = Null THEN "No reasoning provided" ELSE reply.body.reasoning,
        extractedInfo |-> IF reply.body.hasInfo
                          THEN [detectedPhrases |-> <<"kredi">>, amountPhrase |-> Null,
                                termPhrase |-> Null, creditTypePhrase |-> Null]
                          ELSE EmptyInfo,
        uncertainties |-> IF reply.body.hasUncertainties THEN <<"belirsizlik">> ELSE <<>>,
        isLoanQuery |-> (reply.body.isLoanQuery = "true"),
        provider |-> ptype]
  ELSE FailedState("UNKNOWN_ERROR", ptype)

\* BaseAIProvider.parseResponse: the try branch for a JSON object, the catch
\* branch (PARSE_ERROR, confidence 0.1) for text JSON.parse rejects
parseResponse(reply, ptype) ==
  IF reply.kind = "json"
  THEN [creditType |-> reply.body.creditType,
        amount |-> OrNullNum(reply.body.amount),
        term |-> OrNullNum(reply.body.term),
        confidence |-> IF reply.body.confidence = NullNum THEN 0 ELSE reply.body.confidence,
        reasoning |-> IF reply.body.reasoning = Null THEN "No reasoning provided" ELSE reply.body.reasoning,
        extractedInfo |-> IF reply.body.hasInfo
                          THEN [detectedPhrases |-> <<"kredi">>, amountPhrase |-> Null,
                                termPhrase |-> Null, creditTypePhrase |-> Null]
                          ELSE EmptyInfo,
        uncertainties |-> IF reply.body.hasUncertainties THEN <<"belirsizlik">> ELSE <<>>,
        isLoanQuery |-> (reply.body.isLoanQuery = "true"),
        provider |-> ptype]
  ELSE [creditType |-> Null, amount |-> NullNum, term |-> NullNum, confidence |-> 10,
        reasoning |-> "yaniti parse edilemedi", extractedInfo |-> EmptyInfo,
        uncertainties |-> <<"PARSE_ERROR">>,
        isLoanQuery |-> (reply.msg = "kredi"),
        provider |-> ptype]

\* ------------------------------------------------------------------------
\* OpenAIProvider / ClaudeProvider
\* ------------------------------------------------------------------------
\* An error raised inside an adapter: is it an APIError, its status, and
\* what its message contains
SdkError(reply) == [api |-> (reply.kind = "apierror"), status |-> reply.status, msg |-> reply.msg]

PlainError == [api |-> FALSE, status |-> 0, msg |-> "none"]

analyzeOpenAIError(error) ==
  IF error.api /\ error.status = 400 THEN "BAD_REQUEST"
  ELSE IF error.api /\ error.status = 401 THEN "AUTHENTICATION_ERROR"
  ELSE IF error.api /\ error.status = 403 THEN "PERMISSION_ERROR"
  ELSE IF error.api /\ error.status = 404 THEN "MODEL_NOT_FOUND"
  ELSE IF error.api /\ error.status = 429 THEN "RATE_LIMIT_ERROR"
  ELSE IF error.api /\ error.status # 0 /\ error.status >= 500 THEN "SERVER_ERROR"
  ELSE IF error.msg = "fetch" \/ error.msg = "network" THEN "CONNECTION_ERROR"
  ELSE "UNKNOWN_ERROR"

analyzeClaudeError(error) ==
  IF error.api /\ error.status = 400
  THEN (IF error.msg = "credit balance" THEN "BILLING_ERROR" ELSE "BAD_REQUEST")
  ELSE IF error.api /\ error.status = 401 THEN "AUTHENTICATION_ERROR"
  ELSE IF error.api /\ error.status = 403 THEN "PERMISSION_ERROR"
  ELSE IF error.api /\ error.status = 404 THEN "MODEL_NOT_FOUND"
  ELSE IF error.api /\ error.status = 422 THEN "VALIDATION_ERROR"
  ELSE IF error.api /\ error.status = 429 THEN "RATE_LIMIT_ERROR"
  ELSE IF error.api /\ error.status # 0 /\ error.status >= 500 THEN "SERVER_ERROR"
  ELSE IF error.msg = "fetch" \/ error.msg = "network" THEN "CONNECTION_ERROR"
  ELSE "UNKNOWN_ERROR"

\* the suggestion analyzeOpenAIError / analyzeClaudeError put beside each kind
suggestion(ptype, kind) ==
  CASE kind = "BAD_REQUEST" ->
         (IF ptype = OPENAI THEN "Sorgu formatini veya model parametrelerini kontrol edin"
          ELSE "Sorgu formatini kontrol edin")
    [] kind = "BILLING_ERROR" -> "Anthropic hesabinizi kontrol edin ve kredi ekleyin"
    [] kind = "AUTHENTICATION_ERROR" ->
         (IF ptype = OPENAI THEN "OPENAI_API_KEY environment variable'ini kontrol edin"
          ELSE "ANTHROPIC_API_KEY environment variable'ini kontrol edin")
    [] kind = "PERMISSION_ERROR" -> "API anahtarinizin yetkilerini kontrol edin"
    [] kind = "MODEL_NOT_FOUND" -> "Model adini kontrol edin"
    [] kind = "VALIDATION_ERROR" -> "Mesaj formatini ve token limitlerini kontrol edin"
    [] kind = "RATE_LIMIT_ERROR" ->
         (IF ptype = OPENAI THEN "Biraz bekleyip tekrar deneyin veya plan yukseltin"
          ELSE "Biraz bekleyip tekrar deneyin")
    [] kind = "SERVER_ERROR" -> "sunucularda gecici bir sorun var, tekrar deneyin"
    [] kind = "CONNECTION_ERROR" -> "Internet baglantinizi kontrol edin"
    [] OTHER -> "Loglara bakin ve support ile iletisime gecin"

\* initializeOpenAI / initializeAnthropic, run when the adapter has no client
\* yet: false without an API key and when the SDK constructor throws.  Both
\* inputs are fixed for the process, so a client that was constructed once
\* is constructed again the same way.
initializeClient(hasKey, sdkOk) == hasKey /\ sdkOk

\* What went wrong in one adapter.parseQuery run, "none" if nothing did:
\*   no client: 'API is not available' is thrown;
\*   text undefined: text.length throws before the request is sent;
\*   otherwise the request is sent and the reply decides.
AttemptCause(text, hasKey, sdkOk, reply) ==
  IF ~hasKey THEN "missing_credential"
  ELSE IF ~initializeClient(hasKey, sdkOk) THEN "init_failure"
  ELSE IF text.kind = "undefined" THEN "bad_text"
  ELSE IF reply.kind = "apierror" THEN (IF reply.msg = "timeout" THEN "timeout" ELSE "api_error")
  ELSE IF reply.kind = "error" THEN "network_error"
  ELSE IF reply.kind = "text" THEN "non_json"
  ELSE "none"

\* the causes for which control reaches the catch block of parseQuery
Thrown == {"missing_credential", "init_failure", "bad_text", "api_error", "timeout", "network_error"}

\* the error object the catch block analyses
CaughtError(cause, reply) ==
  IF cause \in {"api_error", "timeout", "network_error"} THEN SdkError(reply) ELSE PlainError

NoResult == FailedState("NO_RESULT", Null)

\* OpenAIProvider.parseQuery without the conversion in its catch block: the
\* error leaves the adapter
OpenAIProvider_parseQuery_rethrow(text, hasKey, sdkOk, reply) ==
  LET cause == AttemptCause(text, hasKey, sdkOk, reply) IN
  [threw |-> cause \in Thrown,
   cause |-> cause,
   result |-> IF cause \in Thrown THEN NoResult ELSE parseResponse(reply, OPENAI)]

\* OpenAIProvider.parseQuery: the outcome of one run
OpenAIProvider_parseQuery(text, hasKey, sdkOk, reply) ==
  LET cause == AttemptCause(text, hasKey, sdkOk, reply) IN
  [threw |-> FALSE,
   cause |-> cause,
   result |-> IF cause \in Thrown
              THEN FailedState(analyzeOpenAIError(CaughtError(cause, reply)), OPENAI)
              ELSE parseResponse(reply, OPENAI)]

\* ClaudeProvider.parseQuery: the outcome of one run
ClaudeProvider_parseQuery(text, hasKey, sdkOk, reply) ==
  LET cause == AttemptCause(text, hasKey, sdkOk, reply) IN
  [threw |-> FALSE,
   cause |-> cause,
   result |-> IF cause \in Thrown
              THEN FailedState(analyzeClaudeError(CaughtError(cause, reply)), CLAUDE)
              ELSE parseResponse(reply, CLAUDE)]

\* the mock adapter of AIProviderFactory.createMockProvider: text.toLowerCase()
\* is its first use of text and throws when text is not a string
MockProvider_parseQuery(text) ==
  IF text.kind # "string"
  THEN [threw |-> TRUE, cause |-> "bad_text", result |-> NoResult]
  ELSE [threw |-> FALSE,
        cause |-> "none",
        result |-> [creditType |-> IF text.hasKredi THEN "Konut" ELSE Null,
                    amount |-> IF text.hasDigit THEN 1000000 ELSE NullNum,
                    term |-> IF text.hasTerm THEN 60 ELSE NullNum,
                    confidence |-> IF text.hasKredi THEN 80 ELSE 20,
                    reasoning |-> "Mock provider sonucu",
                    extractedInfo |-> [detectedPhrases |-> <<"kredi", "test">>,
                                       amountPhrase |-> IF text.hasDigit THEN "tutar bulundu" ELSE Null,
                                       termPhrase |-> IF text.hasTerm THEN "vade bulundu" ELSE Null,
                                       creditTypePhrase |-> IF text.hasKredi THEN "kredi turu tespit edildi" ELSE Null],
                    uncertainties |-> <<"MOCK_RESPONSE">>,
                    isLoanQuery |-> text.hasKredi,
                    provider |-> MOCK]]

\* provider.parseQuery(text), dispatched on the adapter's type
ProviderParseQuery(ptype, text, hasKey, sdkOk, reply) ==
  IF ptype = OPENAI THEN OpenAIProvider_parseQuery(text, hasKey, sdkOk, reply)
  ELSE IF ptype = CLAUDE THEN ClaudeProvider_parseQuery(text, hasKey, sdkOk, reply)
  ELSE MockProvider_parseQuery(text)

\* the text testConnectivity sends: 'test konut kredisi 1000000 TL 60 ay'
TestText == [kind |-> "string", hasKredi |-> TRUE, hasDigit |-> TRUE, hasTerm |-> TRUE]

\* testConnectivity: one parseQuery of the test text; it counts as a success
\* when the result is a loan query with a confidence above 0
testConnectivity(probe) ==
  ~probe.threw /\ probe.result.isLoanQuery /\ probe.result.confidence > 0

\* did the probe send a request to the backend: yes unless parseQuery
\* stopped before  chat.completions.create / messages.create
requestSent(probe) == probe.cause \notin {"missing_credential", "init_failure", "bad_text"}

NoDiagnostics ==
  [apiKeyStatus |-> Null, connectionStatus |-> Null, probed |-> FALSE, requestSent |-> FALSE,
   suggestions |-> 0]

\* getDiagnostics: the credential check, then the connection test, which is
\* run whatever the credential check found
getDiagnostics_report(hasKey, keyFormatOk, probe) ==
  [apiKeyStatus |-> IF ~hasKey THEN "missing"
                    ELSE IF ~keyFormatOk THEN "invalid_format"
                    ELSE "configured",
   connectionStatus |-> IF testConnectivity(probe) THEN "success" ELSE "failed",
   probed |-> TRUE,
   requestSent |-> requestSent(probe),
   suggestions |-> (IF hasKey /\ keyFormatOk THEN 0 ELSE 1)
                     + (IF testConnectivity(probe) THEN 0 ELSE 1)]

getDiagnostics(ptype, hasKey, keyFormatOk, sdkOk, reply) ==
  getDiagnostics_report(hasKey, keyFormatOk,
                        ProviderParseQuery(ptype, TestText, hasKey, sdkOk, reply))

\* ------------------------------------------------------------------------
\* AIProviderFactory
\* ------------------------------------------------------------------------
getRecommendedProvider(lang) ==
  IF lang = TURKISH
  THEN [primary |-> OPENAI, fallback |-> CLAUDE]
  ELSE [primary |-> CLAUDE, fallback |-> OPENAI]

isProviderAvailable(type, e) ==
  IF type = CLAUDE THEN e.anthropicKey
  ELSE IF type = OPENAI THEN e.openaiKey
  ELSE type = MOCK

\* buildConfigFromEnvironment: is config.apiKey non-empty
HasApiKey(type, e) ==
  IF type = CLAUDE THEN e.anthropicKey
  ELSE IF type = OPENAI THEN e.openaiKey
  ELSE TRUE

\* AIProviderFactory.createFromEnvironment: the type of the adapter returned
createFromEnvironment(preferredType, lang, e) ==
  IF preferredType # Unnamed
  THEN preferredType
  ELSE LET recommendation == getRecommendedProvider(lang) IN
       IF isProviderAvailable(recommendation.primary, e) THEN recommendation.primary
       ELSE IF isProviderAvailable(recommendation.fallback, e) THEN recommendation.fallback
       ELSE MOCK


\* ------------------------------------------------------------------------
\* AIProviderFactory.createProvider, the adapters' configuration and client
\* ------------------------------------------------------------------------
\* an AIProviderConfig; an optional field that is absent is NullNum.
\* temperature is kept in hundredths.
Config(type, apiKey, model, maxTokens, temperature, timeout, maxRetries) ==
  [type |-> type, apiKey |-> apiKey, model |-> model, maxTokens |-> maxTokens,
   temperature |-> temperature, timeout |-> timeout, maxRetries |-> maxRetries]

NoConfig == Config(Null, Null, Null, NullNum, NullNum, NullNum, NullNum)

\* the configurations createProvider is called with: OpenAI with no
\* credential and with two different ones; the mock
InputConfigs ==
  {Config(OPENAI, k, "gpt-3.5-turbo", 800, 10, NullNum, NullNum) :
     k \in {"", "sk-1", "sk-2"}}
    \cup {Config(MOCK, "mock-key", "mock-model", 100, 0, NullNum, NullNum)}

\* the calls of createFromEnvironment: the preferred type and the value the
\* credential variable of that type holds at the call
EnvCalls == {<<OPENAI, "sk-2">>, <<CLAUDE, "sk-ant-1">>}

\* a Partial<AIProviderConfig>: a field that is not given is Keep / KeepNum
Keep == "keep"
KeepNum == -2

Partials ==
  {Config(Keep, "sk-2", Keep, KeepNum, KeepNum, 5000, 3),
   Config(Keep, Keep, "gpt-4", 500, 70, KeepNum, KeepNum)}

defaultConfigs(type) ==
  IF type = CLAUDE THEN Config(CLAUDE, Null, "claude-3-haiku-20240307", 800, 10, 30000, 1)
  ELSE IF type = OPENAI THEN Config(OPENAI, Null, "gpt-3.5-turbo", 800, 10, 30000, 1)
  ELSE Config(MOCK, Null, "mock-model", 100, 0, 1000, 0)

\* { ...defaults, ...config }
mergeWithDefaults(config) ==
  Config(config.type, config.apiKey, config.model,
         IF config.maxTokens = NullNum THEN defaultConfigs(config.type).maxTokens ELSE config.maxTokens,
         IF config.temperature = NullNum THEN defaultConfigs(config.type).temperature ELSE config.temperature,
         IF config.timeout = NullNum THEN defaultConfigs(config.type).timeout ELSE config.timeout,
         IF config.maxRetries = NullNum THEN defaultConfigs(config.type).maxRetries ELSE config.maxRetries)

\* buildConfigFromEnvironment(type) when the credential variable of the
\* type holds envKey and no model variable is set
buildConfigFromEnvironment(type, envKey) ==
  mergeWithDefaults(
    Config(type,
           IF type = MOCK THEN "mock-key" ELSE envKey,
           IF type = CLAUDE THEN "claude-3-haiku-20240307"
           ELSE IF type = OPENAI THEN "gpt-3.5-turbo" ELSE "mock-model",
           800, 10, NullNum, NullNum))

\* a cache key that also holds the credential itself
getCacheKey_withCredential(config) ==
  <<config.type, config.model, config.maxTokens, config.temperature, config.apiKey>>

\* getCacheKey: the parts that are joined to the key
getCacheKey(config) ==
  <<config.type, config.model, config.maxTokens, config.temperature,
    IF config.apiKey # "" THEN "hasKey" ELSE "noKey">>

\* { ...this.config, ...newConfig }
mergeConfig(config, newConfig) ==
  Config(IF newConfig.type = Keep THEN config.type ELSE newConfig.type,
         IF newConfig.apiKey = Keep THEN config.apiKey ELSE newConfig.apiKey,
         IF newConfig.model = Keep THEN config.model ELSE newConfig.model,
         IF newConfig.maxTokens = KeepNum THEN config.maxTokens ELSE newConfig.maxTokens,
         IF newConfig.temperature = KeepNum THEN config.temperature ELSE newConfig.temperature,
         IF newConfig.timeout = KeepNum THEN config.timeout ELSE newConfig.timeout,
         IF newConfig.maxRetries = KeepNum THEN config.maxRetries ELSE newConfig.maxRetries)

\* the SDK client of an adapter: what it was constructed with
Client(apiKey, timeout, maxRetries) ==
  [apiKey |-> apiKey, timeout |-> timeout, maxRetries |-> maxRetries]

NoClient == Client(Null, NullNum, NullNum)

\* an adapter: the configuration its constructor was given, its working
\* configuration (this.config) and its client (this.openai / this.anthropic)
Adapter(config) == [type |-> config.type, createdWith |-> config, config |-> config, client |-> NoClient]

\* BaseAIProvider.updateConfig; the mock adapter's updateConfig only logs
updateConfig(adapter, newConfig) ==
  IF adapter.type = MOCK THEN adapter
  ELSE [adapter EXCEPT !.config = mergeConfig(adapter.config, newConfig)]

\* initializeOpenAI / initializeAnthropic as parseQuery calls it: only when
\* the adapter has no client yet, and with the configuration of that moment
ensureClient(adapter) ==
  IF adapter.client # NoClient \/ adapter.config.apiKey = "" THEN adapter
  ELSE [adapter EXCEPT !.client = Client(adapter.config.apiKey,
                                         IF adapter.config.timeout = 0 THEN 30000 ELSE adapter.config.timeout,
                                         IF adapter.config.maxRetries = 0 THEN 1 ELSE adapter.config.maxRetries)]

\* the request chat.completions.create / messages.create sends: the client's
\* credential, timeout and retry budget, and the model, token budget and
\* temperature read from this.config when the call is made
Request(client, config) ==
  [apiKey |-> client.apiKey, timeout |-> client.timeout, maxRetries |-> client.maxRetries,
   model |-> config.model, maxTokens |-> config.maxTokens, temperature |-> config.temperature]

\* what a factory call or an adapter call returned in the step just taken
Ret(op, inst, config, created, request) ==
  [op |-> op, inst |-> inst, config |-> config, created |-> created, request |-> request]

NoRequest == Request(NoClient, NoConfig)
NoRet == Ret("none", 0, NoConfig, FALSE, NoRequest)

\* the factory after construction: an empty cache, no adapters, no calls
NoFactory == [providers |-> {}, instances |-> <<>>, flights |-> <<>>, updates |-> 0, ret |-> NoRet]

\* this.providers.get(cacheKey), 0 when the key is not cached
cached(f, key) ==
  IF \E e \in f.providers : e.key = key
  THEN (CHOOSE e \in f.providers : e.key = key).inst
  ELSE 0

\* createProvider that never looks into the cache
createProvider_uncached(f, fullConfig, key) ==
  [f EXCEPT !.instances = Append(@, Adapter(fullConfig)),
            !.providers = {e \in @ : e.key # key} \cup {[key |-> key, inst |-> Len(f.instances) + 1]},
            !.ret = Ret("createProvider", Len(f.instances) + 1, fullConfig, TRUE, NoRequest)]

\* createProvider for the merged configuration and its key
createProvider_keyed(f, fullConfig, key) ==
  IF cached(f, key) # 0
  THEN [f EXCEPT !.ret = Ret("createProvider", cached(f, key), fullConfig, FALSE, NoRequest)]
  ELSE [f EXCEPT !.instances = Append(@, Adapter(fullConfig)),
                 !.providers = @ \cup {[key |-> key, inst |-> Len(f.instances) + 1]},
                 !.ret = Ret("createProvider", Len(f.instances) + 1, fullConfig, TRUE, NoRequest)]

createProvider(f, config) ==
  createProvider_keyed(f, mergeWithDefaults(config), getCacheKey(mergeWithDefaults(config)))

\* ------------------------------------------------------------------------
\* NaturalLanguageService
\* ------------------------------------------------------------------------
\* the texts and backend replies the facade is driven with
PlainText == [kind |-> "string", hasKredi |-> FALSE, hasDigit |-> FALSE, hasTerm |-> FALSE]

NLTexts ==
  {[kind |-> "string", hasKredi |-> TRUE, hasDigit |-> TRUE, hasTerm |-> TRUE],
   [kind |-> "number", hasKredi |-> FALSE, hasDigit |-> FALSE, hasTerm |-> FALSE]}

NLReplies ==
  {r \in Replies :
     \/ r.kind = "json" /\ r.body = FullBody
     \/ r.kind = "text" /\ r.msg = "none"
     \/ r.kind = "apierror" /\ r.status = 401 /\ r.msg = "none"
     \/ r.kind = "apierror" /\ r.msg = "timeout"
     \/ r.kind = "error" /\ r.msg = "fetch"}

\* the reply does not matter to the mock adapter, which calls no backend
NoReply == [kind |-> "json", status |-> 0, msg |-> "none", body |-> EmptyBody]

RepliesFor(ptype) == IF ptype = MOCK THEN {NoReply} ELSE NLReplies

IdleCall ==
  [pc |-> "idle", text |-> PlainText, firstType |-> Null, switched |-> FALSE,
   fallbackType |-> Null, attempts |-> 0, inflight |-> {}, firstCause |-> "none"]

NoOutcome == [threw |-> FALSE, cause |-> "none", result |-> NoResult]

\* NaturalLanguageService.convertToParseQuery
convertToParseQuery(result, originalText) ==
  [amount |-> OrNullNum(result.amount),
   term |-> OrNullNum(result.term),
   creditType |-> result.creditType,
   isHousingLoanQuery |-> result.isLoanQuery,
   confidence |-> result.confidence,
   rawText |-> originalText,
   hasExtractedInfo |-> TRUE,
   detectedPhrases |-> result.extractedInfo.detectedPhrases,
   reasoning |-> result.reasoning,
   uncertainties |-> result.uncertainties]

\* NaturalLanguageService.createFailedResponse
createFailedResponse(text) ==
  [amount |-> NullNum,
   term |-> NullNum,
   creditType |-> Null,
   isHousingLoanQuery |-> FALSE,
   confidence |-> 0,
   rawText |-> text,
   hasExtractedInfo |-> FALSE,
   detectedPhrases |-> <<>>,
   reasoning |-> "Tum AI providers basarisiz oldu",
   uncertainties |-> <<"ALL_PROVIDERS_FAILED">>]

NoLast ==
  [attempts |-> 0, firstType |-> Null, firstCause |-> "none", fallbackType |-> Null,
   secondCause |-> "none", adapter |-> NoOutcome, result |-> createFailedResponse(PlainText),
   threw |-> FALSE]

\* NaturalLanguageService.initialize(preferredProvider, language): the three
\* static fields after the call
initialize(preferredProvider, lang, e) ==
  LET pref == IF preferredProvider = Unnamed THEN OPENAI ELSE preferredProvider IN
  [preferredProviderType |-> pref,
   language |-> lang,
   currentProvider |-> createFromEnvironment(pref, lang, e)]

Initialize(preferredProvider, lang) ==
  LET st == initialize(preferredProvider, lang, env) IN
  /\ preferredProviderType' = st.preferredProviderType
  /\ language' = st.language
  /\ currentProvider' = st.currentProvider
  /\ last' = NoLast
  /\ UNCHANGED <<env, calls, run, search, calc, factory, entity, tls>>

\* NaturalLanguageService.switchProvider
SwitchProvider(providerType) ==
  /\ preferredProviderType' = providerType
  /\ currentProvider' = createFromEnvironment(providerType, language, env)
  /\ last' = NoLast
  /\ UNCHANGED <<env, language, calls, run, search, calc, factory, entity, tls>>

\* NaturalLanguageService.setLanguage
SetLanguage(lang) ==
  LET st == initialize(preferredProviderType, lang, env) IN
  /\ preferredProviderType' = st.preferredProviderType
  /\ language' = st.language
  /\ currentProvider' = st.currentProvider
  /\ last' = NoLast
  /\ UNCHANGED <<env, calls, run, search, calc, factory, entity, tls>>

\* parseQuery racing both backends: the fallback is started with the first
\* attempt
parseQuery_begin_raced(call, text, current) ==
  [call EXCEPT !.pc = "first", !.text = text, !.firstType = current,
               !.attempts = 1, !.inflight = {"first", "fallback"}]

\* NaturalLanguageService.parseQuery up to its first await: initialize() when
\* there is no provider yet, then currentProvider.parseQuery(text) is started
parseQuery_begin(call, text, current) ==
  [call EXCEPT !.pc = "first", !.text = text, !.firstType = current,
               !.attempts = 1, !.inflight = {"first"}]

ParseQueryStart(c, text) ==
  /\ calls[c].pc = "idle"
  /\ LET st == IF currentProvider = Null
               THEN initialize(Unnamed, TURKISH, env)
               ELSE [preferredProviderType |-> preferredProviderType,
                     language |-> language,
                     currentProvider |-> currentProvider] IN
     /\ preferredProviderType' = st.preferredProviderType
     /\ language' = st.language
     /\ currentProvider' = st.currentProvider
     /\ calls' = [calls EXCEPT ![c] = parseQuery_begin(calls[c], text, st.currentProvider)]
  /\ last' = NoLast
  /\ UNCHANGED <<env, run, search, calc, factory, entity, tls>>

\* tryFallbackProvider asking for the active provider again
fallbackTypeOf_same(current, lang) == current

\* tryFallbackProvider: the type it asks the factory for
fallbackTypeOf(current, lang) ==
  LET recommendation == getRecommendedProvider(lang) IN
  IF current = recommendation.primary THEN recommendation.fallback ELSE recommendation.primary

\* tryFallbackProvider up to its await, entered from the catch block of
\* parseQuery: the fallback adapter's parseQuery is started
tryFallbackProvider_begin(call, cause, current, lang, e) ==
  [call EXCEPT !.pc = "fallback",
               !.firstCause = cause,
               !.switched = (current # call.firstType),
               !.fallbackType = createFromEnvironment(fallbackTypeOf(current, lang), lang, e),
               !.attempts = call.attempts + 1,
               !.inflight = {"fallback"}]

\* the record of a call that has returned
Returned(call, secondCause, outcome, parsed) ==
  [attempts |-> call.attempts, firstType |-> call.firstType, firstCause |-> call.firstCause,
   fallbackType |-> call.fallbackType, secondCause |-> secondCause, adapter |-> outcome,
   result |-> parsed, threw |-> FALSE]

\* the await of line 62 completes: the result is converted and returned, or
\* the adapter threw and the catch block enters tryFallbackProvider
FirstAttemptDone(c, reply) ==
  /\ calls[c].pc = "first"
  /\ reply \in RepliesFor(calls[c].firstType)
  /\ LET call == calls[c]
         outcome == ProviderParseQuery(call.firstType, call.text,
                                       HasApiKey(call.firstType, env), env.sdkOk, reply) IN
     IF outcome.threw
     THEN /\ calls' = [calls EXCEPT ![c] =
                         tryFallbackProvider_begin(call, outcome.cause, currentProvider, language, env)]
          /\ last' = NoLast
     ELSE /\ calls' = [calls EXCEPT ![c] = IdleCall]
          /\ last' = Returned([call EXCEPT !.firstCause = outcome.cause], "none", outcome,
                              convertToParseQuery(outcome.result, call.text))
  /\ UNCHANGED <<env, currentProvider, preferredProviderType, language, run, search, calc, factory, entity, tls>>

\* tryFallbackProvider trying once more when the fallback attempt failed
tryFallbackProvider_end_retry(call, outcome) ==
  IF outcome.cause # "none" /\ call.attempts < 4
  THEN [call EXCEPT !.attempts = call.attempts + 1]
  ELSE IdleCall

\* what tryFallbackProvider does with the outcome of the fallback attempt:
\* the call is over in both branches
tryFallbackProvider_end(call, outcome) == IdleCall

\* tryFallbackProvider making the fallback adapter the active provider
tryFallbackProvider_provider_adopted(current, fallbackType) == fallbackType

\* the active provider after tryFallbackProvider: the fallback adapter is a
\* local constant and the static field is not assigned
tryFallbackProvider_provider(current, fallbackType) == current

\* the await of line 105 completes
FallbackDone(c, reply) ==
  /\ calls[c].pc = "fallback"
  /\ reply \in RepliesFor(calls[c].fallbackType)
  /\ LET call == calls[c]
         outcome == ProviderParseQuery(call.fallbackType, call.text,
                                       HasApiKey(call.fallbackType, env), env.sdkOk, reply)
         next == tryFallbackProvider_end(call, outcome) IN
     /\ calls' = [calls EXCEPT ![c] = next]
     /\ last' = IF next.pc = "idle"
                THEN Returned(call, outcome.cause, outcome,
                              IF outcome.threw
                              THEN createFailedResponse(call.text)
                              ELSE convertToParseQuery(outcome.result, call.text))
                ELSE NoLast
  /\ currentProvider' = tryFallbackProvider_provider(currentProvider, calls[c].fallbackType)
  /\ UNCHANGED <<env, preferredProviderType, language, run, search, calc, factory, entity, tls>>

NoRun == [ptype |-> Null, text |-> PlainText, hasKey |-> FALSE, keyFormatOk |-> FALSE,
          sdkOk |-> FALSE, reply |-> NoReply, done |-> FALSE, outcome |-> NoOutcome,
          diag |-> NoDiagnostics]

\* ------------------------------------------------------------------------
\* Numbers of the loan domain
\*
\* An amount is kept in thousandths of a currency unit (12.34 is 12340), so
\* that the rounding of Money to two decimals is visible; a raw termMonths
\* is kept in tenths of a month (2.4 is 24), the months of a Term are whole
\* numbers.  An absent (undefined) numeric field is NullNum.
\* ------------------------------------------------------------------------
NaN == -999999

\* undefined used in arithmetic
ToNumber(x) == IF x = NullNum THEN NaN ELSE x

\* a < b and a > b of JavaScript numbers
Lt(a, b) == a # NaN /\ b # NaN /\ a < b
Gt(a, b) == Lt(b, a)

\* Math.round(n / d) for d > 0: halves go up
Round(n, d) == (2 * n + d) \div (2 * d)

RECURSIVE GCD(_, _)
GCD(a, b) == IF b = 0 THEN a ELSE GCD(b, a % b)

RECURSIVE Pow(_, _)
Pow(b, n) == IF n = 0 THEN 1 ELSE b * Pow(b, n - 1)

\* a call that returned v, a call that threw new Error(msg)
Ok(v) == [threw |-> FALSE, error |-> Null, value |-> v]
Throw(msg) == [threw |-> TRUE, error |-> msg]

\* ------------------------------------------------------------------------
\* Value objects
\* ------------------------------------------------------------------------
toUpperCase(currency) == IF currency = "usd" THEN "USD" ELSE currency

\* new Money(n / d, currency) for a number given as the fraction n / d
Money_of(n, d, currency) ==
  IF n # NaN /\ n < 0 THEN Throw("Amount cannot be negative")
  ELSE IF currency = "" \/ Len(currency) # 3 THEN Throw("Currency must be a valid 3-letter code")
  ELSE Ok([amount |-> IF n = NaN THEN NaN ELSE Round(n, 10 * d) * 10,
           currency |-> toUpperCase(currency)])

\* Money.fromNumber(amount, currency)
Money_fromNumber(amount, currency) == Money_of(ToNumber(amount), 1, currency)

ensureSameCurrency(a, b) == a.currency = b.currency

Money_add(a, b) ==
  IF ~ensureSameCurrency(a, b) THEN Throw("Cannot operate on different currencies")
  ELSE IF a.amount = NaN \/ b.amount = NaN THEN Money_of(NaN, 1, a.currency)
  ELSE Money_of(a.amount + b.amount, 1, a.currency)

Money_subtract(a, b) ==
  IF ~ensureSameCurrency(a, b) THEN Throw("Cannot operate on different currencies")
  ELSE IF a.amount = NaN \/ b.amount = NaN THEN Money_of(NaN, 1, a.currency)
  ELSE Money_of(a.amount - b.amount, 1, a.currency)

Money_multiply(a, factor) ==
  IF a.amount = NaN \/ factor = NaN THEN Money_of(NaN, 1, a.currency)
  ELSE Money_of(a.amount * factor, 1, a.currency)

\* a negative divisor gives a negative quotient, which the constructor
\* refuses, or -0, which it keeps
Money_divide(a, divisor) ==
  IF divisor = 0 THEN Throw("Cannot divide by zero")
  ELSE IF a.amount = NaN \/ divisor = NaN THEN Money_of(NaN, 1, a.currency)
  ELSE IF divisor < 0 THEN Money_of(IF a.amount > 0 THEN -1 ELSE 0, 1, a.currency)
  ELSE Money_of(a.amount, divisor, a.currency)

Money_isGreaterThan(a, b) ==
  IF ~ensureSameCurrency(a, b) THEN Throw("Cannot operate on different currencies")
  ELSE Ok(Gt(a.amount, b.amount))

Money_isLessThan(a, b) ==
  IF ~ensureSameCurrency(a, b) THEN Throw("Cannot operate on different currencies")
  ELSE Ok(Lt(a.amount, b.amount))

\* Term.fromMonths(months), months in tenths
Term_fromMonths(months) ==
  LET m == ToNumber(months) IN
  IF m # NaN /\ m <= 0 THEN Throw("Term must be positive")
  ELSE IF Gt(m, 3600) THEN Throw("Term cannot exceed 360 months (30 years)")
  ELSE Ok([months |-> IF m = NaN THEN NaN ELSE Round(m, 10)])

\* Term.fromYears(years), years in tenths: new Term(years * 12)
Term_fromYears(years) ==
  Term_fromMonths(IF ToNumber(years) = NaN THEN NaN ELSE years * 12)

VALID_TYPES == {"ihtiyac", "konut", "tasit"}

\* LoanType.fromString(type)
LoanType_fromString(type) ==
  IF type \in VALID_TYPES THEN Ok([type |-> type]) ELSE Throw("Invalid loan type")

\* InterestRate.monthlyRate of an annual rate in percent, as the fraction p / q
monthlyRate(rate) ==
  IF rate = 0 THEN [p |-> 0, q |-> 1]
  ELSE LET g == GCD(rate, 1200) IN [p |-> rate \div g, q |-> 1200 \div g]

\* ------------------------------------------------------------------------
\* Loan
\* ------------------------------------------------------------------------
isEligibleForAmount(loan, amount) ==
  ~Lt(amount.amount, loan.minAmount) /\ ~Gt(amount.amount, loan.maxAmount)

isEligibleForTerm(loan, term) == ~Gt(term.months, loan.maxTerm)

\* Loan.isEligible: the comparison of the amounts throws when the
\* currencies differ, and an inactive loan is not compared at all
isEligible(loan, amount, term) ==
  IF ~loan.isActive THEN Ok(FALSE)
  ELSE IF loan.currency # amount.currency THEN Throw("Cannot operate on different currencies")
  ELSE Ok(isEligibleForAmount(loan, amount) /\ isEligibleForTerm(loan, term))

calculateMonthlyPayment(loan, amount, term) ==
  IF loan.currency # amount.currency THEN Throw("Cannot operate on different currencies")
  ELSE IF ~isEligibleForAmount(loan, amount) THEN Throw("Amount is not within loan limits")
  ELSE IF ~isEligibleForTerm(loan, term) THEN Throw("Term exceeds maximum term")
  ELSE IF loan.rate = 0 THEN Money_divide(amount, term.months)
  ELSE IF amount.amount = NaN \/ term.months = NaN THEN Money_of(NaN, 1, amount.currency)
  ELSE LET r == monthlyRate(loan.rate)
           a == Pow(r.q + r.p, term.months)
           b == Pow(r.q, term.months)
       IN Money_of(amount.amount * r.p * a, r.q * (a - b), amount.currency)

calculateTotalPayment(loan, amount, term) ==
  LET monthlyPayment == calculateMonthlyPayment(loan, amount, term) IN
  IF monthlyPayment.threw THEN monthlyPayment
  ELSE Money_multiply(monthlyPayment.value, term.months)

\* ------------------------------------------------------------------------
\* LoanCalculationService
\* ------------------------------------------------------------------------
calculateTotalInterest(loan, amount, term) ==
  LET totalPayment == calculateTotalPayment(loan, amount, term) IN
  IF totalPayment.threw THEN totalPayment
  ELSE Money_subtract(totalPayment.value, amount)

\* an insertion that puts an entry before the entries it ties with: the sort
\* stays ascending and loses the input order of equal keys
insert_unstable(x, sorted) ==
  LET k == Cardinality({i \in 1..Len(sorted) : Lt(sorted[i].key, x.key)}) IN
  SubSeq(sorted, 1, k) \o <<x>> \o SubSeq(sorted, k + 1, Len(sorted))

\* Array.prototype.sort with the comparator a.key - b.key: stable, and a
\* NaN difference counts as equal
insert(x, sorted) ==
  LET k == Cardinality({i \in 1..Len(sorted) : ~Gt(sorted[i].key, x.key)}) IN
  SubSeq(sorted, 1, k) \o <<x>> \o SubSeq(sorted, k + 1, Len(sorted))

RECURSIVE sort(_)
sort(s) == IF s = <<>> THEN <<>> ELSE insert(s[Len(s)], sort(SubSeq(s, 1, Len(s) - 1)))

\* one entry of the comparison: the three figures of a loan, each a Money or
\* the error its calculation threw
LoanComparison(loan, amount, term) ==
  [loan |-> loan,
   monthlyPayment |-> calculateMonthlyPayment(loan, amount, term),
   totalPayment |-> calculateTotalPayment(loan, amount, term),
   totalInterest |-> calculateTotalInterest(loan, amount, term)]

\* the error that ended the map of compareLoans at an entry
comparisonError(row) ==
  IF row.monthlyPayment.threw THEN row.monthlyPayment.error
  ELSE IF row.totalPayment.threw THEN row.totalPayment.error
  ELSE IF row.totalInterest.threw THEN row.totalInterest.error
  ELSE Null

\* the map and the sort of compareLoans over the entries of the eligible loans
rankComparisons(rows) ==
  IF \E i \in 1..Len(rows) : comparisonError(rows[i]) # Null
  THEN Throw(comparisonError(rows[CHOOSE i \in 1..Len(rows) :
                                    /\ comparisonError(rows[i]) # Null
                                    /\ \A j \in 1..(i - 1) : comparisonError(rows[j]) = Null]))
  ELSE Ok(sort([i \in 1..Len(rows) |->
                 [loan |-> rows[i].loan,
                  monthlyPayment |-> rows[i].monthlyPayment.value,
                  totalPayment |-> rows[i].totalPayment.value,
                  totalInterest |-> rows[i].totalInterest.value,
                  key |-> rows[i].totalPayment.value.amount]]))

\* the entries of the loans that passed the filter
comparisonsOf(eligible, amount, term) ==
  [i \in 1..Len(eligible) |-> LoanComparison(eligible[i], amount, term)]

compareLoans(loans, amount, term) ==
  IF \E i \in 1..Len(loans) : isEligible(loans[i], amount, term).threw
  THEN Throw("Cannot operate on different currencies")
  ELSE rankComparisons(comparisonsOf(SelectSeq(loans, LAMBDA l : isEligible(l, amount, term).value),
                                     amount, term))

\* ------------------------------------------------------------------------
\* InMemoryLoanRepository
\* ------------------------------------------------------------------------
\* a loan of the catalog
Loan(id, type, rate, minAmount, maxAmount, maxTerm, isActive) ==
  [id |-> id, type |-> type, rate |-> rate, minAmount |-> minAmount, maxAmount |-> maxAmount,
   maxTerm |-> maxTerm, isActive |-> isActive, currency |-> "TRY"]

\* catalogs the repository is seeded with: two priced housing loans the
\* ranking has to reorder, an inactive one and a vehicle loan; an
\* interest-free housing loan next to a priced one; no loans at all
Catalogs ==
  {<<Loan("konut-001", "konut", 60, 1000, 5000, 3, TRUE),
     Loan("konut-002", "konut", 24, 2000, 5000, 2, TRUE),
     Loan("konut-003", "konut", 24, 1000, 5000, 3, FALSE),
     Loan("tasit-001", "tasit", 60, 1000, 5000, 3, TRUE)>>,
   <<Loan("konut-004", "konut", 0, 1000, 5000, 360, TRUE),
     Loan("konut-001", "konut", 60, 1000, 5000, 3, TRUE)>>,
   <<>>}

\* InMemoryLoanRepository.findEligible
findEligible(loans, type, amount, term) ==
  LET ofType == SelectSeq(loans, LAMBDA l : l.type = type.type) IN
  IF \E i \in 1..Len(ofType) : isEligible(ofType[i], amount, term).threw
  THEN Throw("Cannot operate on different currencies")
  ELSE Ok(SelectSeq(ofType, LAMBDA l : isEligible(l, amount, term).value))

\* ------------------------------------------------------------------------
\* The Bank and Loan entities
\* ------------------------------------------------------------------------
\* String.trim on the names and notes the entities are given
trim(str) ==
  IF str = "   " THEN ""
  ELSE IF str = " yeni not " THEN "yeni not"
  ELSE str

\* new Bank(id, name, isActive) at time now
Bank_constructor(id, name, isActive, now) ==
  IF trim(id) = "" THEN Throw("Bank ID cannot be empty")
  ELSE IF trim(name) = "" THEN Throw("Bank name cannot be empty")
  ELSE Ok([id |-> id, name |-> trim(name), isActive |-> isActive, createdAt |-> now,
           updatedAt |-> now])

Bank_updateName(bank, name, now) ==
  IF trim(name) = "" THEN Throw("Bank name cannot be empty")
  ELSE Ok([bank EXCEPT !.name = trim(name), !.updatedAt = now])

Bank_activate(bank, now) == [bank EXCEPT !.isActive = TRUE, !.updatedAt = now]

Bank_deactivate(bank, now) == [bank EXCEPT !.isActive = FALSE, !.updatedAt = now]

\* Loan.validateInputs for objects that are all given: the id, the note and
\* the order of the two amounts
validateInputs(id, minAmount, maxAmount, eligibilityNote) ==
  IF trim(id) = "" THEN Throw("Loan ID cannot be empty")
  ELSE IF trim(eligibilityNote) = "" THEN Throw("Eligibility note cannot be empty")
  ELSE IF Money_isGreaterThan(minAmount, maxAmount).threw
  THEN Throw("Cannot operate on different currencies")
  ELSE IF Money_isGreaterThan(minAmount, maxAmount).value
  THEN Throw("Minimum amount cannot be greater than maximum amount")
  ELSE Ok(TRUE)

\* new Loan(id, bank, type, interestRate, minAmount, maxAmount, maxTerm,
\* eligibilityNote, isActive) at time now
Loan_constructor(id, bank, type, rate, minAmount, maxAmount, maxTerm, note, isActive, now) ==
  IF validateInputs(id, minAmount, maxAmount, note).threw
  THEN validateInputs(id, minAmount, maxAmount, note)
  ELSE Ok([id |-> id, bank |-> bank, type |-> type, interestRate |-> rate,
           minAmount |-> minAmount, maxAmount |-> maxAmount, maxTerm |-> maxTerm,
           eligibilityNote |-> trim(note), isActive |-> isActive,
           createdAt |-> now, updatedAt |-> now])

Loan_updateInterestRate(loan, newRate, now) ==
  [loan EXCEPT !.interestRate = newRate, !.updatedAt = now]

Loan_updateEligibilityNote(loan, note, now) ==
  IF trim(note) = "" THEN Throw("Eligibility note cannot be empty")
  ELSE Ok([loan EXCEPT !.eligibilityNote = trim(note), !.updatedAt = now])

Loan_activate(loan, now) == [loan EXCEPT !.isActive = TRUE, !.updatedAt = now]

Loan_deactivate(loan, now) == [loan EXCEPT !.isActive = FALSE, !.updatedAt = now]

\* what the entities are constructed with and updated to
BankNames == {"Banka A", "   "}
Notes == {"uygun", " yeni not ", "   "}
LoanAmounts == {Money_fromNumber(a, "TRY").value : a \in {NullNum, 1000, 5000}}
Rates == {24, 60}

NoBank == [id |-> Null, name |-> Null, isActive |-> FALSE, createdAt |-> 0, updatedAt |-> 0]
NoLoanEntity ==
  [id |-> Null, bank |-> NoBank, type |-> Null, interestRate |-> 0,
   minAmount |-> Money_fromNumber(0, "TRY").value,
   maxAmount |-> Money_fromNumber(0, "TRY").value,
   maxTerm |-> 1, eligibilityNote |-> Null, isActive |-> FALSE,
   createdAt |-> 0, updatedAt |-> 0]

\* no Loan has been constructed; now is the clock new Date() reads
NoEntity == [exists |-> FALSE, loan |-> NoLoanEntity, now |-> 0, op |-> "none", threw |-> FALSE]

\* ------------------------------------------------------------------------
\* HousingLoanService.makeApiRequest and NODE_TLS_REJECT_UNAUTHORIZED
\* ------------------------------------------------------------------------
MaxRequests == 2

\* the variable is not set
Unset == "unset"

\* the values NODE_TLS_REJECT_UNAUTHORIZED has when the service is first used
TlsValues == {Unset, "0", "1"}

\* a makeApiRequest call: where it is, the sslVerifyEnabled of its service,
\* its originalRejectUnauthorized and that of the call its catch block makes
\* on the fallback service
NewRequest == [pc |-> "new", sslVerifyEnabled |-> FALSE, original |-> Unset, nested |-> Unset]

\* the service before its first request; before is the value the variable
\* had when the first call started
NoTls == [value |-> Unset, before |-> Unset, started |-> 0,
          requests |-> [c \in 1..MaxRequests |-> NewRequest]]

\* strategy 1 of makeApiRequest: the variable after the try block's first statement
disableVerification(value, sslVerifyEnabled) ==
  IF ~sslVerifyEnabled THEN "0" ELSE value

\* the finally block of makeApiRequest: the variable after it
restore(originalRejectUnauthorized) ==
  IF originalRejectUnauthorized # Unset THEN originalRejectUnauthorized ELSE Unset

\* ------------------------------------------------------------------------
\* Calls on the loan domain
\* ------------------------------------------------------------------------
\* numbers a Money is constructed from (thousandths; NullNum is undefined,
\* which the constructor stores as NaN) and the currency codes given
RawAmounts == {NullNum, -5000, -4, 0, 500, 1000, 2004, 3000, 6000}
RawCurrencies == {"TRY", "usd", "TR", "", "EURO"}

\* the Money values of the calls on Loan and LoanCalculationService
Moneys ==
  {Money_fromNumber(a, "TRY").value : a \in {NullNum, 500, 1000, 2004, 3000, 6000}}
    \cup {Money_fromNumber(3000, "usd").value}

\* the Term values: undefined months, and 1 to 4 months
Terms == {Term_fromMonths(t).value : t \in {NullNum, 10, 20, 30, 40}}

\* numbers a Term is constructed from, in tenths of a month: undefined, a
\* negative number, 0, 0.4, 0.5, 1, 2.4, 360, 360.4 and 361
RawMonths == {NullNum, -10, 0, 4, 5, 10, 24, 3600, 3604, 3610}

\* numbers Term.fromYears is given, in tenths of a year: undefined, -1, 0,
\* 0.1, 1.5, 30 and 30.1
RawYears == {NullNum, -10, 0, 1, 15, 300, 301}

\* factors and divisors of Money.multiply and Money.divide
Factors == {-2, 0, 2, 3, NaN}

\* the loans Loan methods are called on: those of the catalogs, and a
\* second loan priced like konut-001
Loans ==
  UNION {{cat[i] : i \in 1..Len(cat)} : cat \in Catalogs}
    \cup {Loan("konut-005", "konut", 60, 1000, 5000, 3, TRUE)}

\* the lists compareLoans is called with
Compared ==
  Catalogs
    \cup {<<Loan("konut-001", "konut", 60, 1000, 5000, 3, TRUE),
            Loan("konut-002", "konut", 24, 2000, 5000, 2, TRUE),
            Loan("konut-005", "konut", 60, 1000, 5000, 3, TRUE)>>}

NoMoney == [amount |-> 0, currency |-> "TRY"]
NoTerm == [months |-> 1]

\* one call: the operation, its receiver and arguments, and what it returned
\* or threw
Calc(op, loans, amount, term, other, number, currency, out) ==
  [op |-> op, loans |-> loans, amount |-> amount, term |-> term, other |-> other,
   number |-> number, currency |-> currency, out |-> out]

NoCalc == Calc("none", <<>>, NoMoney, NoTerm, NoMoney, 0, "TRY", Ok(FALSE))

\* the three figures LoanCalculationService gives for one loan
payments(loan, amount, term) ==
  [monthlyPayment |-> calculateMonthlyPayment(loan, amount, term),
   totalPayment |-> calculateTotalPayment(loan, amount, term),
   totalInterest |-> calculateTotalInterest(loan, amount, term)]

\* ------------------------------------------------------------------------
\* SearchLoansUseCase
\* ------------------------------------------------------------------------
\* what aiService.parseQuery gives the use case: a QueryParseResult, or a
\* thrown value (an Error with a message, or something that is no Error)
QueryParseResult(threw, success, type, amount, termMonths, currency, error) ==
  [threw |-> threw, success |-> success, type |-> type, amount |-> amount,
   termMonths |-> termMonths, currency |-> currency, error |-> error]

ParseTypes == {"konut", "tasit", "Konut", Null}
ParseAmounts == {NullNum, -5000, 1000, 2004, 3000, 90000}
ParseTerms == {NullNum, 0, 24, 30, 3610}
ParseCurrencies == {Null, "TRY", "usd", "TR"}

ParseResults ==
  {QueryParseResult(TRUE, FALSE, Null, NullNum, NullNum, Null, e) : e \in {Null, "AI service unavailable"}}
  \cup {QueryParseResult(FALSE, FALSE, Null, NullNum, NullNum, Null, e) : e \in {Null, "Sorgu anlasilamadi"}}
  \cup {QueryParseResult(FALSE, TRUE, t, a, m, c, Null) :
          t \in ParseTypes, a \in ParseAmounts, m \in ParseTerms, c \in ParseCurrencies}

NoParse == QueryParseResult(FALSE, FALSE, Null, NullNum, NullNum, Null, Null)

createEmptyParams == [type |-> "", amount |-> 0, termMonths |-> 0, currency |-> "TRY"]

toLoanDto(comparison, amount, term) ==
  [id |-> comparison.loan.id,
   type |-> comparison.loan.type,
   interestRate |-> comparison.loan.rate,
   monthlyPayment |-> comparison.monthlyPayment.amount,
   totalPayment |-> comparison.totalPayment.amount,
   totalInterest |-> comparison.totalInterest.amount,
   minAmount |-> comparison.loan.minAmount,
   maxAmount |-> comparison.loan.maxAmount,
   maxTermMonths |-> comparison.loan.maxTerm,
   currency |-> amount.currency]

\* a response: success is "true", "false", or "absent" when the object has
\* no such field; error is Null when the object has no error field
Response(success, error, parsedParams, loans) ==
  [success |-> success, error |-> error, parsedParams |-> parsedParams,
   loans |-> loans, totalFound |-> Len(loans)]

NoResponse == Response("absent", Null, createEmptyParams, <<>>)

\* the outcome of one search: did it throw to its caller, the response it
\* returned, and what it did on the way: the step an error came from, the
\* number of catalog lookups, whether the ranking ran, and the number of
\* loans the lookup gave (NullNum when there was none)
Outcome(threw, error, failedAt, lookups, ranked, matched, response) ==
  [threw |-> threw, error |-> error, failedAt |-> failedAt, lookups |-> lookups,
   ranked |-> ranked, matched |-> matched, response |-> response]

NoSearchOutcome == Outcome(FALSE, Null, "none", 0, FALSE, NullNum, NoResponse)

\* parseResult.currency || 'TRY'
currencyOf(parseResult) ==
  IF parseResult.currency \in {Null, ""} THEN "TRY" ELSE parseResult.currency

\* execute from the conversion of the comparisons to the success response
execute_respond(parseResult, amount, term, matched, loanComparisons) ==
  IF loanComparisons.threw
  THEN Outcome(TRUE, loanComparisons.error, "ranking", 1, TRUE, matched, NoResponse)
  ELSE Outcome(FALSE, Null, "none", 1, TRUE, matched,
               Response("true", Null,
                        [type |-> parseResult.type, amount |-> parseResult.amount,
                         termMonths |-> parseResult.termMonths,
                         currency |-> currencyOf(parseResult)],
                        [i \in 1..Len(loanComparisons.value) |->
                           toLoanDto(loanComparisons.value[i], amount, term)]))

\* execute from the answer of the repository on
execute_rank(parseResult, amount, term, found) ==
  IF found.threw
  THEN Outcome(TRUE, found.error, "catalog", 1, FALSE, NullNum, NoResponse)
  ELSE execute_respond(parseResult, amount, term, Len(found.value),
                       compareLoans(found.value, amount, term))

\* execute from the three value objects on; the repository holds loans, or
\* its findEligible fails
execute_find(parseResult, loans, catalogFault, loanType, amount, term) ==
  IF loanType.threw
  THEN Outcome(TRUE, loanType.error, "type", 0, FALSE, NullNum, NoResponse)
  ELSE IF amount.threw
  THEN Outcome(TRUE, amount.error, "amount", 0, FALSE, NullNum, NoResponse)
  ELSE IF term.threw
  THEN Outcome(TRUE, term.error, "term", 0, FALSE, NullNum, NoResponse)
  ELSE execute_rank(parseResult, amount.value, term.value,
                    IF catalogFault THEN Throw("Catalog unavailable")
                    ELSE findEligible(loans, loanType.value, amount.value, term.value))

\* the body of the try block of execute
execute_try(parseResult, loans, catalogFault) ==
  IF parseResult.threw
  THEN Outcome(TRUE, parseResult.error, "parser", 0, FALSE, NullNum, NoResponse)
  ELSE IF ~parseResult.success
  THEN Outcome(FALSE, Null, "parse", 0, FALSE, NullNum,
               Response("false",
                        IF parseResult.error = Null THEN "Query could not be parsed"
                        ELSE parseResult.error,
                        createEmptyParams, <<>>))
  ELSE execute_find(parseResult, loans, catalogFault,
                    LoanType_fromString(parseResult.type),
                    Money_fromNumber(parseResult.amount, currencyOf(parseResult)),
                    Term_fromMonths(parseResult.termMonths))

\* execute without its catch block: what the try block throws reaches the
\* caller
execute_catch_rethrow(attempt) == attempt

\* the catch block of execute
execute_catch(attempt) ==
  IF attempt.threw
  THEN [attempt EXCEPT !.threw = FALSE,
                       !.response = Response("false",
                                             IF attempt.error = Null THEN "Unknown error occurred"
                                             ELSE attempt.error,
                                             createEmptyParams, <<>>)]
  ELSE attempt

\* SearchLoansUseCase.execute
execute(parseResult, loans, catalogFault) ==
  execute_catch(execute_try(parseResult, loans, catalogFault))

\* ------------------------------------------------------------------------
\* AIService and the two LoanSearchTool.searchLoans variants
\* ------------------------------------------------------------------------
MaxFound == 2

\* the object the model answered with, as far as AIService.parseQuery looks
\* at it; an absent string is Null, an absent number 0 (both are falsy)
GeminiBodies ==
  [success : BOOLEAN, type : {Null, "konut"}, amount : {0, 3000}, termMonths : {0, 24},
   inventory : {Null, "otomobil"}, cash : {0, 500}]

NoGeminiBody ==
  [success |-> FALSE, type |-> Null, amount |-> 0, termMonths |-> 0, inventory |-> Null, cash |-> 0]

\* what generateContent does: it answers with JSON, with other text, or fails
GeminiReplies ==
  {[kind |-> "json", body |-> b] : b \in GeminiBodies}
  \cup {[kind |-> k, body |-> NoGeminiBody] : k \in {"text", "error"}}

\* AIService.parseQuery
AIService_parseQuery(reply) ==
  IF reply.kind # "json"
  THEN [success |-> FALSE, hasParams |-> FALSE, params |-> NoGeminiBody,
        error |-> "AI servisi ile iletisim hatasi"]
  ELSE IF /\ reply.body.success
          /\ reply.body.type # Null
          /\ reply.body.amount # 0
          /\ reply.body.termMonths # 0
          /\ reply.body.inventory # Null
          /\ reply.body.cash # 0
  THEN [success |-> TRUE, hasParams |-> TRUE, params |-> reply.body, error |-> Null]
  ELSE [success |-> FALSE, hasParams |-> FALSE, params |-> NoGeminiBody,
        error |-> "Sorgu anlasilamadi"]

\* the parsedParams the two variants return when the query could not be parsed
PlaceholderParams == [type |-> "ihtiyac", amount |-> 0, termMonths |-> 0]

PlaceholderParamsApi ==
  [type |-> "ihtiyac", amount |-> 0, termMonths |-> 0, inventory |-> "ihtiyac - 100000", cash |-> 0]

\* parseResult.params
ToolParams(params) ==
  [type |-> params.type, amount |-> params.amount, termMonths |-> params.termMonths,
   inventory |-> params.inventory, cash |-> params.cash]

\* the lists a loan source can answer with: up to MaxFound loans, each with
\* an interest rate (0 when the product carries none)
LoanLists == UNION {[1..n -> {[interestRate |-> r] : r \in {0, 2}}] : n \in 0..MaxFound}

\* LoanSearchTool.searchLoans of the variant that reads LoanDataService;
\* loans is what loanDataService.searchLoans returned
searchLoans(reply, loans) ==
  LET parseResult == AIService_parseQuery(reply) IN
  IF ~parseResult.success \/ ~parseResult.hasParams
  THEN Outcome(FALSE, Null, "parse", 0, FALSE, NullNum,
               Response("absent", Null, PlaceholderParams, <<>>))
  ELSE Outcome(FALSE, Null, "none", 1, FALSE, Len(loans),
               Response("absent", Null, ToolParams(parseResult.params), loans))

\* LoanSearchTool.transformProductsToLoans
transformProductsToLoans(products, loanType) ==
  LET sorted == sort([i \in 1..Len(products) |->
                        [type |-> loanType, interestRate |-> products[i].interestRate,
                         key |-> products[i].interestRate]])
  IN [i \in 1..Len(sorted) |-> [type |-> sorted[i].type, interestRate |-> sorted[i].interestRate]]

\* what the gateway request ends in: an error (no connection, a status
\* outside 2xx, a body that is no JSON), or an object with or without products
ApiReplies ==
  {[kind |-> "error", hasProducts |-> FALSE, products |-> <<>>],
   [kind |-> "json", hasProducts |-> FALSE, products |-> <<>>]}
  \cup {[kind |-> "json", hasProducts |-> TRUE, products |-> p] : p \in LoanLists}

\* LoanSearchTool.searchLoans of the variant that asks the gateway API
searchLoansApi(reply, api) ==
  LET parseResult == AIService_parseQuery(reply) IN
  IF ~parseResult.success \/ ~parseResult.hasParams
  THEN Outcome(FALSE, Null, "parse", 0, FALSE, NullNum,
               Response("absent", Null, PlaceholderParamsApi, <<>>))
  ELSE IF api.kind = "error"
  THEN Outcome(FALSE, Null, "catalog", 1, FALSE, NullNum,
               Response("absent", Null, ToolParams(parseResult.params), <<>>))
  ELSE LET loans == transformProductsToLoans(api.products, parseResult.params.type) IN
       Outcome(FALSE, Null, "none", 1, FALSE, Len(loans),
               Response("absent", Null, ToolParams(parseResult.params), loans))

\* ------------------------------------------------------------------------
\* One search request: its entry point, its inputs and its outcome
\* ------------------------------------------------------------------------
USECASE == "SearchLoansUseCase.execute"
TOOL == "LoanSearchTool.searchLoans"
TOOL_API == "LoanSearchTool.searchLoans (gateway)"

Search(entry, parse, reply, outcome) ==
  [entry |-> entry, parse |-> parse, reply |-> reply, outcome |-> outcome]

NoGeminiReply == [kind |-> "error", body |-> NoGeminiBody]

NoSearch == Search(Null, NoParse, NoGeminiReply, NoSearchOutcome)

\* every language other than Turkish takes the same branch of
\* getRecommendedProvider; the facade is driven with Turkish and English
NLLanguages == {TURKISH, ENGLISH}

InitNL ==
  /\ env \in {e \in Envs : e.sdkOk}
  /\ currentProvider = Null
  /\ preferredProviderType = OPENAI
  /\ language = TURKISH
  /\ calls = [c \in Calls |-> IdleCall]
  /\ last = NoLast
  /\ run = NoRun
  /\ search = NoSearch
  /\ calc = NoCalc
  /\ factory = NoFactory
  /\ entity = NoEntity
  /\ tls = NoTls

NextNL ==
  \/ \E p \in AIProviderType \cup {Unnamed}, l \in NLLanguages : Initialize(p, l)
  \/ \E p \in AIProviderType : SwitchProvider(p)
  \/ \E l \in NLLanguages : SetLanguage(l)
  \/ \E c \in Calls, t \in NLTexts : ParseQueryStart(c, t)
  \/ \E c \in Calls, r \in NLReplies \cup {NoReply} : FirstAttemptDone(c, r)
  \/ \E c \in Calls, r \in NLReplies \cup {NoReply} : FallbackDone(c, r)

SpecNL == InitNL /\ [][NextNL]_vars


\* ------------------------------------------------------------------------
\* One adapter.parseQuery run on its own, over every input
\* ------------------------------------------------------------------------
InitRun ==
  /\ env \in {e \in Envs : e.sdkOk /\ e.openaiKey /\ e.anthropicKey}
  /\ currentProvider = Null
  /\ preferredProviderType = OPENAI
  /\ language = TURKISH
  /\ calls = [c \in Calls |-> IdleCall]
  /\ last = NoLast
  /\ search = NoSearch
  /\ calc = NoCalc
  /\ factory = NoFactory
  /\ entity = NoEntity
  /\ tls = NoTls
  /\ run \in [ptype : AIProviderType, text : Texts, hasKey : BOOLEAN, keyFormatOk : BOOLEAN,
              sdkOk : BOOLEAN, reply : {NoReply}, done : {FALSE}, outcome : {NoOutcome},
              diag : {NoDiagnostics}]
  /\ run.keyFormatOk => run.hasKey

\* provider.parseQuery(text) runs to completion on an adapter built with or
\* without a credential
AdapterParseQuery(reply) ==
  /\ ~run.done
  /\ run.ptype = MOCK => reply = NoReply
  /\ run' = [run EXCEPT !.done = TRUE,
                        !.reply = reply,
                        !.outcome = ProviderParseQuery(run.ptype, run.text, run.hasKey, run.sdkOk, reply)]
  /\ UNCHANGED <<env, currentProvider, preferredProviderType, language, calls, last, search, calc, factory, entity, tls>>

\* provider.getDiagnostics() runs to completion on an SDK adapter; the
\* reply is what the backend answers if the connection test reaches it
AdapterGetDiagnostics(reply) ==
  /\ ~run.done
  /\ run.ptype \in {OPENAI, CLAUDE}
  /\ run' = [run EXCEPT !.done = TRUE,
                        !.text = TestText,
                        !.reply = reply,
                        !.outcome = ProviderParseQuery(run.ptype, TestText, run.hasKey, run.sdkOk, reply),
                        !.diag = getDiagnostics(run.ptype, run.hasKey, run.keyFormatOk, run.sdkOk, reply)]
  /\ UNCHANGED <<env, currentProvider, preferredProviderType, language, calls, last, search, calc, factory, entity, tls>>

NextRun ==
  \/ \E r \in Replies \cup {NoReply} : AdapterParseQuery(r)
  \/ \E r \in Replies : AdapterGetDiagnostics(r)

SpecRun == InitRun /\ [][NextRun]_vars


\* ------------------------------------------------------------------------
\* One search request through each entry point, over every input
\* ------------------------------------------------------------------------
InitSearch ==
  /\ env \in {e \in Envs : e.sdkOk /\ e.openaiKey /\ e.anthropicKey}
  /\ currentProvider = Null
  /\ preferredProviderType = OPENAI
  /\ language = TURKISH
  /\ calls = [c \in Calls |-> IdleCall]
  /\ last = NoLast
  /\ run = NoRun
  /\ search = NoSearch
  /\ calc = NoCalc
  /\ factory = NoFactory
  /\ entity = NoEntity
  /\ tls = NoTls

\* searchUseCase.execute({ query }) runs to completion; the parser answers
\* with parseResult, the repository holds loans or fails
UseCaseExecute(parseResult, loans, catalogFault) ==
  /\ search.entry = Null
  /\ search' = Search(USECASE, parseResult, NoGeminiReply, execute(parseResult, loans, catalogFault))
  /\ UNCHANGED <<env, currentProvider, preferredProviderType, language, calls, last, run, calc, factory, entity, tls>>

ToolSearchLoans(reply, loans) ==
  /\ search.entry = Null
  /\ search' = Search(TOOL, NoParse, reply, searchLoans(reply, loans))
  /\ UNCHANGED <<env, currentProvider, preferredProviderType, language, calls, last, run, calc, factory, entity, tls>>

ToolSearchLoansApi(reply, api) ==
  /\ search.entry = Null
  /\ search' = Search(TOOL_API, NoParse, reply, searchLoansApi(reply, api))
  /\ UNCHANGED <<env, currentProvider, preferredProviderType, language, calls, last, run, calc, factory, entity, tls>>

NextSearch ==
  \/ \E p \in ParseResults, l \in Catalogs, f \in BOOLEAN : UseCaseExecute(p, l, f)
  \/ \E r \in GeminiReplies, l \in LoanLists : ToolSearchLoans(r, l)
  \/ \E r \in GeminiReplies, a \in ApiReplies : ToolSearchLoansApi(r, a)

SpecSearch == InitSearch /\ [][NextSearch]_vars

\* ------------------------------------------------------------------------
\* The loan domain called directly: one call of one operation
\* ------------------------------------------------------------------------
InitDomain ==
  /\ env \in {e \in Envs : e.sdkOk /\ e.openaiKey /\ e.anthropicKey}
  /\ currentProvider = Null
  /\ preferredProviderType = OPENAI
  /\ language = TURKISH
  /\ calls = [c \in Calls |-> IdleCall]
  /\ last = NoLast
  /\ run = NoRun
  /\ search = NoSearch
  /\ calc = NoCalc
  /\ factory = NoFactory
  /\ entity = NoEntity
  /\ tls = NoTls

domainUnchanged ==
  UNCHANGED <<env, currentProvider, preferredProviderType, language, calls, last, run, search,
              factory, entity, tls>>

\* new Money(n, currency)
NewMoney(n, currency) ==
  /\ calc.op = "none"
  /\ calc' = Calc("new Money", <<>>, NoMoney, NoTerm, NoMoney, n, currency,
                  Money_fromNumber(n, currency))
  /\ domainUnchanged

MoneyAdd(a, b) ==
  /\ calc.op = "none"
  /\ calc' = Calc("add", <<>>, a, NoTerm, b, 0, "TRY", Money_add(a, b))
  /\ domainUnchanged

MoneySubtract(a, b) ==
  /\ calc.op = "none"
  /\ calc' = Calc("subtract", <<>>, a, NoTerm, b, 0, "TRY", Money_subtract(a, b))
  /\ domainUnchanged

MoneyMultiply(a, factor) ==
  /\ calc.op = "none"
  /\ calc' = Calc("multiply", <<>>, a, NoTerm, NoMoney, factor, "TRY", Money_multiply(a, factor))
  /\ domainUnchanged

MoneyDivide(a, divisor) ==
  /\ calc.op = "none"
  /\ calc' = Calc("divide", <<>>, a, NoTerm, NoMoney, divisor, "TRY", Money_divide(a, divisor))
  /\ domainUnchanged

MoneyIsGreaterThan(a, b) ==
  /\ calc.op = "none"
  /\ calc' = Calc("isGreaterThan", <<>>, a, NoTerm, b, 0, "TRY", Money_isGreaterThan(a, b))
  /\ domainUnchanged

MoneyIsLessThan(a, b) ==
  /\ calc.op = "none"
  /\ calc' = Calc("isLessThan", <<>>, a, NoTerm, b, 0, "TRY", Money_isLessThan(a, b))
  /\ domainUnchanged

\* new Term(months) and Term.fromMonths(months)
NewTerm(months) ==
  /\ calc.op = "none"
  /\ calc' = Calc("new Term", <<>>, NoMoney, NoTerm, NoMoney, months, "TRY",
                  Term_fromMonths(months))
  /\ domainUnchanged

\* Term.fromYears(years)
TermFromYears(years) ==
  /\ calc.op = "none"
  /\ calc' = Calc("Term.fromYears", <<>>, NoMoney, NoTerm, NoMoney, years, "TRY",
                  Term_fromYears(years))
  /\ domainUnchanged

\* loan.isEligible(amount, term)
LoanIsEligible(loan, amount, term) ==
  /\ calc.op = "none"
  /\ calc' = Calc("isEligible", <<loan>>, amount, term, NoMoney, 0, "TRY",
                  isEligible(loan, amount, term))
  /\ domainUnchanged

\* calculateMonthlyPayment, calculateTotalPayment and calculateTotalInterest
\* of LoanCalculationService for one loan
CalculatePayments(loan, amount, term) ==
  /\ calc.op = "none"
  /\ calc' = Calc("payments", <<loan>>, amount, term, NoMoney, 0, "TRY",
                  payments(loan, amount, term))
  /\ domainUnchanged

\* LoanCalculationService.compareLoans(loans, amount, term)
CompareLoans(loans, amount, term) ==
  /\ calc.op = "none"
  /\ calc' = Calc("compareLoans", loans, amount, term, NoMoney, 0, "TRY",
                  compareLoans(loans, amount, term))
  /\ domainUnchanged

NextDomain ==
  \/ \E n \in RawAmounts, c \in RawCurrencies : NewMoney(n, c)
  \/ \E a \in Moneys, b \in Moneys : MoneyAdd(a, b)
  \/ \E a \in Moneys, b \in Moneys : MoneySubtract(a, b)
  \/ \E a \in Moneys, f \in Factors : MoneyMultiply(a, f)
  \/ \E a \in Moneys, d \in Factors : MoneyDivide(a, d)
  \/ \E a \in Moneys, b \in Moneys : MoneyIsGreaterThan(a, b)
  \/ \E a \in Moneys, b \in Moneys : MoneyIsLessThan(a, b)
  \/ \E m \in RawMonths : NewTerm(m)
  \/ \E y \in RawYears : TermFromYears(y)
  \/ \E l \in Loans, a \in Moneys, t \in Terms : LoanIsEligible(l, a, t)
  \/ \E l \in Loans, a \in Moneys, t \in Terms : CalculatePayments(l, a, t)
  \/ \E ls \in Compared, a \in Moneys, t \in Terms : CompareLoans(ls, a, t)

SpecDomain == InitDomain /\ [][NextDomain]_vars

\* ------------------------------------------------------------------------
\* The adapter cache: createProvider, clearCache, updateConfig and the
\* parseQuery calls of the cached adapters
\* ------------------------------------------------------------------------
MaxInstances == 2
MaxUpdates == 2
MaxFlights == 2

InitCache ==
  /\ env \in {e \in Envs : e.sdkOk /\ e.openaiKey /\ e.anthropicKey}
  /\ currentProvider = Null
  /\ preferredProviderType = OPENAI
  /\ language = TURKISH
  /\ calls = [c \in Calls |-> IdleCall]
  /\ last = NoLast
  /\ run = NoRun
  /\ search = NoSearch
  /\ calc = NoCalc
  /\ factory = NoFactory
  /\ entity = NoEntity
  /\ tls = NoTls

cacheUnchanged ==
  UNCHANGED <<env, currentProvider, preferredProviderType, language, calls, last, run, search,
              calc, entity, tls>>

\* AIProviderFactory.createProvider(config)
CreateProvider(config) ==
  /\ Len(createProvider(factory, config).instances) <= MaxInstances
  /\ factory' = createProvider(factory, config)
  /\ cacheUnchanged

\* AIProviderFactory.createFromEnvironment(preferredType) while the
\* credential variable of the type holds envKey
CreateFromEnvironment(preferredType, envKey) ==
  /\ Len(createProvider(factory, buildConfigFromEnvironment(preferredType, envKey)).instances)
       <= MaxInstances
  /\ factory' = createProvider(factory, buildConfigFromEnvironment(preferredType, envKey))
  /\ cacheUnchanged

\* AIProviderFactory.clearCache(): the adapters handed out stay with their holders
ClearCache ==
  /\ factory.providers # {}
  /\ factory' = [factory EXCEPT !.providers = {},
                                !.ret = Ret("clearCache", 0, NoConfig, FALSE, NoRequest)]
  /\ cacheUnchanged

\* adapter.updateConfig(newConfig) on an adapter the factory handed out
UpdateConfig(i, newConfig) ==
  /\ factory.updates < MaxUpdates
  /\ factory' = [factory EXCEPT !.instances[i] = updateConfig(@, newConfig),
                                !.updates = @ + 1,
                                !.ret = Ret("updateConfig", i, newConfig, FALSE, NoRequest)]
  /\ cacheUnchanged

\* parseQuery of an OpenAI or Claude adapter up to the await of the SDK call:
\* the client is built if there is none, and the request is sent; without a
\* client the call throws at once
AdapterCallStart(i) ==
  /\ factory.instances[i].type # MOCK
  /\ Len(factory.flights) < MaxFlights
  /\ factory' =
       IF ensureClient(factory.instances[i]).client = NoClient
       THEN [factory EXCEPT !.ret = Ret("parseQuery threw", i, factory.instances[i].config,
                                        FALSE, NoRequest)]
       ELSE [factory EXCEPT
               !.instances[i] = ensureClient(@),
               !.flights = Append(@, [inst |-> i,
                                      startConfig |-> factory.instances[i].config,
                                      request |-> Request(ensureClient(factory.instances[i]).client,
                                                          factory.instances[i].config)]),
               !.ret = Ret("parseQuery", i, factory.instances[i].config, FALSE,
                           Request(ensureClient(factory.instances[i]).client,
                                   factory.instances[i].config))]
  /\ cacheUnchanged

\* the SDK call of a parseQuery in flight resolves and the call returns
AdapterCallEnd(k) ==
  /\ factory' = [factory EXCEPT
                   !.flights = SubSeq(@, 1, k - 1) \o SubSeq(@, k + 1, Len(@)),
                   !.ret = Ret("parseQuery returned", factory.flights[k].inst,
                               factory.flights[k].startConfig, FALSE, factory.flights[k].request)]
  /\ cacheUnchanged

NextCache ==
  \/ \E config \in InputConfigs : CreateProvider(config)
  \/ \E call \in EnvCalls : CreateFromEnvironment(call[1], call[2])
  \/ ClearCache
  \/ \E i \in 1..Len(factory.instances) : AdapterCallStart(i)
  \/ \E k \in 1..Len(factory.flights) : AdapterCallEnd(k)

SpecCache == InitCache /\ [][NextCache]_vars

\* ------------------------------------------------------------------------
\* One adapter the factory handed out: updateConfig and its parseQuery calls
\* ------------------------------------------------------------------------
\* the factory after its first createProvider or createFromEnvironment call
Handed ==
  {createProvider(NoFactory, config) : config \in InputConfigs}
    \cup {createProvider(NoFactory, buildConfigFromEnvironment(call[1], call[2])) :
            call \in EnvCalls}

InitAdapter ==
  /\ env \in {e \in Envs : e.sdkOk /\ e.openaiKey /\ e.anthropicKey}
  /\ currentProvider = Null
  /\ preferredProviderType = OPENAI
  /\ language = TURKISH
  /\ calls = [c \in Calls |-> IdleCall]
  /\ last = NoLast
  /\ run = NoRun
  /\ search = NoSearch
  /\ calc = NoCalc
  /\ factory \in Handed
  /\ entity = NoEntity
  /\ tls = NoTls

NextAdapter ==
  \/ \E i \in 1..Len(factory.instances), newConfig \in Partials : UpdateConfig(i, newConfig)
  \/ \E i \in 1..Len(factory.instances) : AdapterCallStart(i)
  \/ \E k \in 1..Len(factory.flights) : AdapterCallEnd(k)

SpecAdapter == InitAdapter /\ [][NextAdapter]_vars

\* ------------------------------------------------------------------------
\* The life of a Loan and its Bank
\* ------------------------------------------------------------------------
MaxClock == 2

InitEntity ==
  /\ env \in {e \in Envs : e.sdkOk /\ e.openaiKey /\ e.anthropicKey}
  /\ currentProvider = Null
  /\ preferredProviderType = OPENAI
  /\ language = TURKISH
  /\ calls = [c \in Calls |-> IdleCall]
  /\ last = NoLast
  /\ run = NoRun
  /\ search = NoSearch
  /\ calc = NoCalc
  /\ factory = NoFactory
  /\ entity = NoEntity
  /\ tls = NoTls

entityUnchanged ==
  UNCHANGED <<env, currentProvider, preferredProviderType, language, calls, last, run, search,
              calc, factory, tls>>

\* the entity after a method that returns the new state or throws
applied(op, out) ==
  IF out.threw
  THEN [entity EXCEPT !.op = op, !.threw = TRUE]
  ELSE [entity EXCEPT !.op = op, !.threw = FALSE, !.exists = TRUE, !.loan = out.value]

\* time passes
Tick ==
  /\ entity.now < MaxClock
  /\ entity' = [entity EXCEPT !.now = @ + 1, !.op = "tick", !.threw = FALSE]
  /\ entityUnchanged

\* new Bank(...) and new Loan(...) on it
NewLoan(name, rate, minAmount, maxAmount, note, isActive) ==
  /\ ~entity.exists
  /\ entity' =
       IF Bank_constructor("bank-1", name, TRUE, entity.now).threw
       THEN [entity EXCEPT !.op = "new Bank", !.threw = TRUE]
       ELSE applied("new Loan",
                    Loan_constructor("konut-001",
                                     Bank_constructor("bank-1", name, TRUE, entity.now).value,
                                     "konut", rate, minAmount, maxAmount, 3, note, isActive,
                                     entity.now))
  /\ entityUnchanged

LoanUpdateInterestRate(newRate) ==
  /\ entity.exists
  /\ entity' = applied("updateInterestRate", Ok(Loan_updateInterestRate(entity.loan, newRate, entity.now)))
  /\ entityUnchanged

LoanUpdateEligibilityNote(note) ==
  /\ entity.exists
  /\ entity' = applied("updateEligibilityNote", Loan_updateEligibilityNote(entity.loan, note, entity.now))
  /\ entityUnchanged

LoanActivate ==
  /\ entity.exists
  /\ entity' = applied("activate", Ok(Loan_activate(entity.loan, entity.now)))
  /\ entityUnchanged

LoanDeactivate ==
  /\ entity.exists
  /\ entity' = applied("deactivate", Ok(Loan_deactivate(entity.loan, entity.now)))
  /\ entityUnchanged

\* the methods of the Bank, called on the bank of the loan
onBank(op, out) ==
  IF out.threw
  THEN [entity EXCEPT !.op = op, !.threw = TRUE]
  ELSE [entity EXCEPT !.op = op, !.threw = FALSE, !.loan.bank = out.value]

BankUpdateName(name) ==
  /\ entity.exists
  /\ entity' = onBank("Bank.updateName", Bank_updateName(entity.loan.bank, name, entity.now))
  /\ entityUnchanged

BankActivate ==
  /\ entity.exists
  /\ entity' = onBank("Bank.activate", Ok(Bank_activate(entity.loan.bank, entity.now)))
  /\ entityUnchanged

BankDeactivate ==
  /\ entity.exists
  /\ entity' = onBank("Bank.deactivate", Ok(Bank_deactivate(entity.loan.bank, entity.now)))
  /\ entityUnchanged

NextEntity ==
  \/ Tick
  \/ \E name \in BankNames, rate \in Rates, minAmount \in LoanAmounts, maxAmount \in LoanAmounts,
        note \in Notes, isActive \in BOOLEAN :
        NewLoan(name, rate, minAmount, maxAmount, note, isActive)
  \/ \E newRate \in Rates : LoanUpdateInterestRate(newRate)
  \/ \E note \in Notes : LoanUpdateEligibilityNote(note)
  \/ LoanActivate
  \/ LoanDeactivate
  \/ \E name \in BankNames \cup {"Banka B"} : BankUpdateName(name)
  \/ BankActivate
  \/ BankDeactivate

SpecEntity == InitEntity /\ [][NextEntity]_vars

\* ------------------------------------------------------------------------
\* Overlapping HousingLoanService.makeApiRequest calls
\* ------------------------------------------------------------------------
InitTls ==
  /\ env \in {e \in Envs : e.sdkOk /\ e.openaiKey /\ e.anthropicKey}
  /\ currentProvider = Null
  /\ preferredProviderType = OPENAI
  /\ language = TURKISH
  /\ calls = [c \in Calls |-> IdleCall]
  /\ last = NoLast
  /\ run = NoRun
  /\ search = NoSearch
  /\ calc = NoCalc
  /\ factory = NoFactory
  /\ entity = NoEntity
  /\ tls \in {[NoTls EXCEPT !.value = v, !.before = v] : v \in TlsValues}

tlsUnchanged ==
  UNCHANGED <<env, currentProvider, preferredProviderType, language, calls, last, run, search,
              calc, factory, entity>>

\* makeApiRequest up to  await fetch(...): the variable is saved and, when
\* the service does not verify certificates, set to '0'
MakeApiRequestStart(c, sslVerifyEnabled) ==
  /\ tls.requests[c].pc = "new"
  /\ tls' = [tls EXCEPT
               !.requests[c] = [pc |-> "fetch", sslVerifyEnabled |-> sslVerifyEnabled,
                                original |-> tls.value, nested |-> Unset],
               !.value = disableVerification(tls.value, sslVerifyEnabled),
               !.before = IF tls.started = 0 THEN tls.value ELSE @,
               !.started = @ + 1]
  /\ tlsUnchanged

\* fetch settles: the response is read next; or the catch block calls
\* makeApiRequest of a service without verification, which runs up to its
\* own fetch; or the error is rethrown and the finally block runs
FetchDone(c, outcome) ==
  /\ tls.requests[c].pc = "fetch"
  /\ tls' =
       IF outcome = "ok"
       THEN [tls EXCEPT !.requests[c].pc = "json"]
       ELSE IF outcome = "ssl_error" /\ tls.requests[c].sslVerifyEnabled
       THEN [tls EXCEPT !.requests[c].pc = "nested fetch",
                        !.requests[c].nested = tls.value,
                        !.value = disableVerification(tls.value, FALSE)]
       ELSE [tls EXCEPT !.requests[c].pc = "done",
                        !.value = restore(tls.requests[c].original)]
  /\ tlsUnchanged

\* response.json() settles: the call returns or throws, and the finally block runs
JsonDone(c) ==
  /\ tls.requests[c].pc = "json"
  /\ tls' = [tls EXCEPT !.requests[c].pc = "done",
                        !.value = restore(tls.requests[c].original)]
  /\ tlsUnchanged

\* the fetch of the fallback service's call settles
NestedFetchDone(c, outcome) ==
  /\ tls.requests[c].pc = "nested fetch"
  /\ tls' =
       IF outcome = "ok"
       THEN [tls EXCEPT !.requests[c].pc = "nested json"]
       ELSE [tls EXCEPT !.requests[c].pc = "unwind",
                        !.value = restore(tls.requests[c].nested)]
  /\ tlsUnchanged

\* response.json() of the fallback service's call settles and its finally
\* block runs
NestedJsonDone(c) ==
  /\ tls.requests[c].pc = "nested json"
  /\ tls' = [tls EXCEPT !.requests[c].pc = "unwind",
                        !.value = restore(tls.requests[c].nested)]
  /\ tlsUnchanged

\* the await of the fallback service's call resumes in the catch block,
\* and the finally block of the first call runs
OuterFinally(c) ==
  /\ tls.requests[c].pc = "unwind"
  /\ tls' = [tls EXCEPT !.requests[c].pc = "done",
                        !.value = restore(tls.requests[c].original)]
  /\ tlsUnchanged

FetchOutcomes == {"ok", "http_error", "ssl_error", "error"}

NextTls ==
  \/ \E c \in 1..MaxRequests, sslVerifyEnabled \in BOOLEAN : MakeApiRequestStart(c, sslVerifyEnabled)
  \/ \E c \in 1..MaxRequests, outcome \in FetchOutcomes : FetchDone(c, outcome)
  \/ \E c \in 1..MaxRequests : JsonDone(c)
  \/ \E c \in 1..MaxRequests, outcome \in FetchOutcomes : NestedFetchDone(c, outcome)
  \/ \E c \in 1..MaxRequests : NestedJsonDone(c)
  \/ \E c \in 1..MaxRequests : OuterFinally(c)

SpecTls == InitTls /\ [][NextTls]_vars


\* ========================================================================
\* Properties
\* ========================================================================

\* C1: no NaturalLanguageService.parseQuery call makes more than two
\* provider parse attempts, whether it is still running or has returned.
C1_AtMostTwoAttempts ==
  /\ \A c \in Calls : calls[c].attempts <= 2
  /\ last.attempts <= 2

\* a call that made its second attempt has returned
C1_Witness == last.attempts = 2

\* the ways the spec names in which the active provider's attempt fails
NamedFailures == {"api_error", "timeout", "non_json"}

\* C2: whenever the active provider's attempt fails by a backend exception,
\* a timeout or a non-JSON response, the call makes exactly one attempt on
\* the alternate provider before it returns.
C2_FallbackOnEveryFailure ==
  (last.attempts >= 1 /\ last.firstCause \in NamedFailures) => last.attempts = 2

\* C3: parseQuery never throws, and when both the active provider's attempt
\* and the fallback attempt failed the result is the confidence-0
\* ALL_PROVIDERS_FAILED object.
C3_AllProvidersFailed ==
  /\ ~last.threw
  /\ (last.attempts = 2 /\ last.firstCause # "none" /\ last.secondCause # "none")
       => /\ last.result.confidence = 0
          /\ ~last.result.isHousingLoanQuery
          /\ last.result.uncertainties = <<"ALL_PROVIDERS_FAILED">>

\* C4: the provider chosen for the fallback attempt has a type different
\* from the type of the provider whose attempt failed in the same call,
\* whatever switchProvider, initialize, setLanguage and other parseQuery
\* calls did while the first attempt was pending.
C4_FallbackDiffers ==
  /\ \A c \in Calls : calls[c].pc = "fallback" => calls[c].fallbackType # calls[c].firstType
  /\ last.attempts = 2 => last.fallbackType # last.firstType

\* a fallback attempt is pending in a call during whose first attempt the
\* current provider was replaced
C4_Witness == \E c \in Calls : calls[c].pc = "fallback" /\ calls[c].switched

\* C5: within one call the two backends are never in flight together; the
\* fallback attempt is in flight only after the first one ended in failure.
C5_Sequential ==
  \A c \in Calls :
    /\ Cardinality(calls[c].inflight) <= 1
    /\ "fallback" \in calls[c].inflight
         => calls[c].pc = "fallback" /\ calls[c].firstCause # "none"

\* a fallback attempt is in flight
C5_Witness == \E c \in Calls : calls[c].inflight = {"fallback"}

\* what the spec says is used when no provider is named
AutoSelected(lang, e) ==
  LET pair == getRecommendedProvider(lang) IN
  IF isProviderAvailable(pair.primary, e) THEN pair.primary
  ELSE IF isProviderAvailable(pair.fallback, e) THEN pair.fallback
  ELSE MOCK

\* C6: a named provider is the one used; NaturalLanguageService.initialize()
\* without a provider uses the pair's primary if its credential is present,
\* else the pair's fallback if its credential is present, else the mock.
C6_Selection ==
  [][\A l \in NLLanguages :
       /\ Initialize(Unnamed, l) => currentProvider' = AutoSelected(l, env)
       /\ \A p \in AIProviderType : Initialize(p, l) => currentProvider' = p]_vars

\* C7: SearchLoansUseCase.execute never throws to its caller; whatever the
\* parser, the catalog and the calculation do, it returns a success response
\* or a response with success = false and an error message.
C7_ExecuteNeverThrows ==
  search.entry = USECASE
    => /\ ~search.outcome.threw
       /\ \/ search.outcome.response.success = "true" /\ search.outcome.response.error = Null
          \/ /\ search.outcome.response.success = "false"
             /\ search.outcome.response.error \notin {Null, ""}

\* the calculation threw for a loan the catalog gave, and execute answered
\* with a failure response
C7_Witness ==
  /\ search.entry = USECASE
  /\ search.outcome.failedAt = "ranking"
  /\ search.outcome.response.success = "false"
  /\ search.outcome.response.error = "Amount cannot be negative"

\* the query of a finished search did not parse
ParseFailed ==
  /\ search.entry # Null
  /\ IF search.entry = USECASE
     THEN search.parse.threw \/ ~search.parse.success
     ELSE ~AIService_parseQuery(search.reply).success

\* the response tells its reader that the search failed
ReportsFailure(response) == response.success = "false" \/ response.error # Null

\* C8: at every search entry point a query that parsed and matched no loan
\* ends in a success with totalFound = 0, and a query that failed to parse
\* ends in a result the caller can tell from it: one that reports a failure.
C8_ZeroMatchDistinct ==
  (search.entry # Null /\ ~search.outcome.threw)
    => /\ (~ParseFailed /\ search.outcome.matched = 0)
            => /\ ~ReportsFailure(search.outcome.response)
               /\ search.outcome.response.totalFound = 0
       /\ ParseFailed => ReportsFailure(search.outcome.response)

\* C9: when type, amount or termMonths is absent from the parse result,
\* execute answers with a failure, and has made no catalog lookup and no
\* ranking.
C9_RequiredFieldsVerified ==
  ( /\ search.entry = USECASE
    /\ ~search.parse.threw
    /\ \/ search.parse.type = Null
       \/ search.parse.amount = NullNum
       \/ search.parse.termMonths = NullNum )
    => /\ search.outcome.response.success = "false"
       /\ search.outcome.lookups = 0
       /\ ~search.outcome.ranked

\* the failures of the provider layer C10 lists
ProviderLayerFailures == {"missing_credential", "init_failure", "api_error", "timeout", "network_error"}

\* the error kinds analyzeOpenAIError and analyzeClaudeError give out
ErrorKinds ==
  {"BAD_REQUEST", "BILLING_ERROR", "AUTHENTICATION_ERROR", "PERMISSION_ERROR", "MODEL_NOT_FOUND",
   "VALIDATION_ERROR", "RATE_LIMIT_ERROR", "SERVER_ERROR", "CONNECTION_ERROR", "UNKNOWN_ERROR"}

\* C10: OpenAIProvider.parseQuery and ClaudeProvider.parseQuery never throw;
\* every provider-layer failure comes back as a result with creditType,
\* amount and term null, confidence 0, isLoanQuery false and the error kind
\* as its only uncertainty.
C10_AdaptersNeverThrow ==
  (run.done /\ run.ptype \in {OPENAI, CLAUDE})
    => /\ ~run.outcome.threw
       /\ run.outcome.cause \in ProviderLayerFailures
            => /\ run.outcome.result.creditType = Null
               /\ run.outcome.result.amount = NullNum
               /\ run.outcome.result.term = NullNum
               /\ run.outcome.result.confidence = 0
               /\ ~run.outcome.result.isLoanQuery
               /\ Len(run.outcome.result.uncertainties) = 1
               /\ run.outcome.result.uncertainties[1] \in ErrorKinds
               /\ run.outcome.result.provider = run.ptype

\* an OpenAI run ended by an API error of the backend
C10_Witness ==
  /\ run.done
  /\ run.ptype = OPENAI
  /\ run.outcome.cause = "api_error"
  /\ run.outcome.result.uncertainties = <<"SERVER_ERROR">>

\* C11 (as amended): BaseAIProvider.parseResponse never raises.  For a JSON
\* object every missing key gets a default: null for creditType, amount,
\* term and the phrases, 0 for confidence, false for isLoanQuery, an empty
\* list for detectedPhrases and uncertainties, and the text 'No reasoning
\* provided' for reasoning.  For text that is no JSON the result has
\* creditType, amount and term null, confidence 0.1 and uncertainties
\* ['PARSE_ERROR'].  No exception leaves the adapter.
C11_ParseResponseNeverRaises ==
  (run.done /\ run.ptype \in {OPENAI, CLAUDE} /\ run.outcome.cause \in {"none", "non_json"})
    => /\ ~run.outcome.threw
       /\ run.outcome.cause = "non_json"
            => /\ run.outcome.result.creditType = Null
               /\ run.outcome.result.amount = NullNum
               /\ run.outcome.result.term = NullNum
               /\ run.outcome.result.confidence = 10
               /\ run.outcome.result.uncertainties = <<"PARSE_ERROR">>
       /\ (run.outcome.cause = "none" /\ run.reply.body = EmptyBody)
            => /\ run.outcome.result.creditType = Null
               /\ run.outcome.result.amount = NullNum
               /\ run.outcome.result.term = NullNum
               /\ run.outcome.result.confidence = 0
               /\ run.outcome.result.extractedInfo = EmptyInfo
               /\ run.outcome.result.uncertainties = <<>>
               /\ run.outcome.result.isLoanQuery = FALSE
               /\ run.outcome.result.reasoning = "No reasoning provided"

\* C11 as the specification words it: every missing key, reasoning
\* included, defaults to null, false, 0 or an empty list
C11_EveryDefaultIsEmpty ==
  (run.done /\ run.ptype \in {OPENAI, CLAUDE} /\ run.outcome.cause = "none"
     /\ run.reply.body = EmptyBody)
    => /\ run.outcome.result.creditType = Null
       /\ run.outcome.result.amount = NullNum
       /\ run.outcome.result.term = NullNum
       /\ run.outcome.result.confidence = 0
       /\ run.outcome.result.extractedInfo = EmptyInfo
       /\ run.outcome.result.uncertainties = <<>>
       /\ run.outcome.result.isLoanQuery = FALSE
       /\ run.outcome.result.reasoning = Null

\* a Claude run whose backend answered with text that is no JSON
C11_Witness ==
  /\ run.done
  /\ run.ptype = CLAUDE
  /\ run.outcome.cause = "non_json"
  /\ run.outcome.result.uncertainties = <<"PARSE_ERROR">>
\* C12: getDiagnostics on an adapter without a credential reports
\* apiKeyStatus 'missing', with a malformed credential 'invalid_format'; in
\* both cases no connectivity probe is issued and connectionStatus is
\* 'not_tested'.
C12_NoProbeWithoutCredential ==
  (run.done /\ run.diag # NoDiagnostics /\ ~(run.hasKey /\ run.keyFormatOk))
    => /\ run.diag.apiKeyStatus = (IF run.hasKey THEN "invalid_format" ELSE "missing")
       /\ ~run.diag.probed
       /\ ~run.diag.requestSent
       /\ run.diag.connectionStatus = "not_tested"
\* the error taxonomy of the specification
Taxonomy ==
  {"AUTHENTICATION_ERROR", "BILLING_ERROR", "RATE_LIMIT_ERROR", "MODEL_NOT_FOUND", "BAD_REQUEST",
   "SERVER_ERROR", "CONNECTION_ERROR", "UNKNOWN_ERROR"}

\* C13: every failure an adapter classifies gets exactly one kind of the
\* closed set Authentication, Billing, RateLimit, ModelNotFound, BadRequest,
\* ServerError, Connection, Unknown, and a non-empty suggestion, whatever
\* the HTTP status or the non-HTTP error.
C13_ClosedTaxonomy ==
  (run.done /\ run.ptype \in {OPENAI, CLAUDE} /\ run.outcome.cause \in Thrown)
    => /\ Len(run.outcome.result.uncertainties) = 1
       /\ run.outcome.result.uncertainties[1] \in Taxonomy
       /\ suggestion(run.ptype, run.outcome.result.uncertainties[1]) # ""
\* C14: a provider call that exceeds its timeout ends, and is reported as
\* CONNECTION_ERROR and as no other kind.
C14_TimeoutIsConnectionError ==
  (run.done /\ run.ptype \in {OPENAI, CLAUDE} /\ run.outcome.cause = "timeout")
    => /\ ~run.outcome.threw
       /\ run.outcome.result.uncertainties = <<"CONNECTION_ERROR">>
\* a <= b of JavaScript numbers
Le(a, b) == a # NaN /\ b # NaN /\ a <= b

\* the eligibility predicate of the specification
Eligible(loan, amount, term) ==
  /\ loan.isActive
  /\ Le(loan.minAmount, amount.amount)
  /\ Le(amount.amount, loan.maxAmount)
  /\ Le(term.months, loan.maxTerm)

\* C15: for every loan, amount in the loan's currency and term,
\* Loan.isEligible(amount, term) is true if and only if the loan is active
\* and minAmount <= amount <= maxAmount and term <= maxTerm.
C15_EligibleIff ==
  (calc.op = "isEligible" /\ calc.amount.currency = calc.loans[1].currency)
    => /\ ~calc.out.threw
       /\ calc.out.value = Eligible(calc.loans[1], calc.amount, calc.term)
\* C16: calculateMonthlyPayment and calculateTotalPayment fail for every
\* (amount, term) that is not eligible for the loan (inactive loan, amount
\* outside [minAmount, maxAmount], term above maxTerm), an amount out of
\* range with another error than an exceeded term; they never return a
\* figure for such a pair.
C16_NoFigureUnlessEligible ==
  (calc.op = "payments" /\ calc.amount.currency = calc.loans[1].currency
     /\ ~Eligible(calc.loans[1], calc.amount, calc.term))
    => /\ calc.out.monthlyPayment.threw
       /\ calc.out.totalPayment.threw
       /\ ~isEligibleForAmount(calc.loans[1], calc.amount)
            => calc.out.monthlyPayment.error = "Amount is not within loan limits"
       /\ (isEligibleForAmount(calc.loans[1], calc.amount) /\ ~isEligibleForTerm(calc.loans[1], calc.term))
            => calc.out.monthlyPayment.error = "Term exceeds maximum term"
\* C17: for every loan and every (amount, term) eligible for it,
\* LoanCalculationService gives, without failing, totalPayment =
\* monthlyPayment x term.months and totalInterest = totalPayment - amount as
\* Money values; at rate 0 monthlyPayment is amount / term rounded to two
\* decimals.
C17_TotalsOfEligible ==
  (calc.op = "payments" /\ calc.amount.currency = calc.loans[1].currency
     /\ Eligible(calc.loans[1], calc.amount, calc.term))
    => /\ ~calc.out.monthlyPayment.threw
       /\ ~calc.out.totalPayment.threw
       /\ ~calc.out.totalInterest.threw
       /\ calc.loans[1].rate = 0
            => calc.out.monthlyPayment.value.amount
                 = Round(calc.amount.amount, 10 * calc.term.months) * 10
       /\ calc.out.totalPayment.value.amount
            = calc.out.monthlyPayment.value.amount * calc.term.months
       /\ calc.out.totalInterest.value.amount
            = calc.out.totalPayment.value.amount - calc.amount.amount
       /\ calc.out.totalInterest.value.amount >= 0
\* the place of a loan in the list compareLoans was called with
inputIndex(loan) == CHOOSE k \in 1..Len(calc.loans) : calc.loans[k] = loan

\* C18: the list compareLoans returns is non-decreasing by totalPayment, so
\* its first entry has the minimum and its last the maximum total payment;
\* entries with equal totalPayment keep their order in the input.
C18_RankedAscendingStable ==
  (calc.op = "compareLoans" /\ ~calc.out.threw)
    => \A i, j \in 1..Len(calc.out.value) :
         i < j =>
           /\ ~Gt(calc.out.value[i].totalPayment.amount, calc.out.value[j].totalPayment.amount)
           /\ ~Lt(calc.out.value[j].totalPayment.amount, calc.out.value[1].totalPayment.amount)
           /\ ~Gt(calc.out.value[i].totalPayment.amount,
                  calc.out.value[Len(calc.out.value)].totalPayment.amount)
           /\ calc.out.value[i].totalPayment.amount = calc.out.value[j].totalPayment.amount
                => inputIndex(calc.out.value[i].loan) < inputIndex(calc.out.value[j].loan)

\* three loans were ranked: the cheaper konut-002 moved in front of
\* konut-001, and konut-005, which costs the same as konut-001, stayed
\* behind it
C18_Witness ==
  /\ calc.op = "compareLoans"
  /\ ~calc.out.threw
  /\ Len(calc.out.value) = 3
  /\ calc.loans[1].id = "konut-001"
  /\ calc.out.value[1].loan.id = "konut-002"
  /\ calc.out.value[2].loan.id = "konut-001"
  /\ calc.out.value[3].loan.id = "konut-005"
  /\ Lt(calc.out.value[1].totalPayment.amount, calc.out.value[2].totalPayment.amount)
  /\ calc.out.value[2].totalPayment.amount = calc.out.value[3].totalPayment.amount
\* C19: the list compareLoans returns contains exactly the input loans that
\* are eligible for (amount, term), each once: inactive loans and loans
\* whose minimum or maximum amount or maximum term the request violates are
\* absent, and every entry carries figures, none an error marker.
C19_ExactlyTheEligible ==
  (calc.op = "compareLoans" /\ ~calc.out.threw)
    => /\ \A k \in 1..Len(calc.loans) :
            Cardinality({i \in 1..Len(calc.out.value) : calc.out.value[i].loan = calc.loans[k]})
              = (IF Eligible(calc.loans[k], calc.amount, calc.term) THEN 1 ELSE 0)
       /\ \A i \in 1..Len(calc.out.value) :
            /\ \E k \in 1..Len(calc.loans) : calc.out.value[i].loan = calc.loans[k]
            /\ calc.out.value[i].monthlyPayment.currency = calc.amount.currency
            /\ calc.out.value[i].totalPayment.currency = calc.amount.currency
            /\ calc.out.value[i].totalInterest.currency = calc.amount.currency
\* amount >= 0 of a JavaScript number
NonNegative(n) == n # NaN /\ n >= 0

\* C20: Money construction fails for every negative amount and for every
\* currency code that is not 3 letters long; so every Money that the
\* constructor, add, subtract, multiply or divide gives has amount >= 0; and
\* add, subtract and the comparisons fail when the two currencies differ.
C20_MoneyInvariant ==
  /\ (calc.op = "new Money" /\ calc.number # NullNum /\ calc.number < 0) => calc.out.threw
  /\ (calc.op = "new Money" /\ Len(calc.currency) # 3) => calc.out.threw
  /\ (calc.op \in {"new Money", "add", "subtract", "multiply", "divide"} /\ ~calc.out.threw)
       => NonNegative(calc.out.value.amount)
  /\ (calc.op \in {"add", "subtract", "isGreaterThan", "isLessThan"}
        /\ calc.amount.currency # calc.other.currency)
       => calc.out.threw
\* C21: every Term that construction accepts has months in 1..360: the
\* constructor, fromMonths and fromYears fail for every non-positive value
\* and every value above 360 months (Term(0) and Term(361) fail), and no
\* accepted input gives a Term whose months are outside 1..360.
C21_TermInRange ==
  /\ (calc.op = "new Term" /\ calc.number # NullNum /\ (calc.number <= 0 \/ calc.number > 3600))
       => calc.out.threw
  /\ (calc.op = "Term.fromYears" /\ calc.number # NullNum /\ (calc.number <= 0 \/ calc.number > 300))
       => calc.out.threw
  /\ (calc.op \in {"new Term", "Term.fromYears"} /\ ~calc.out.threw)
       => calc.out.value.months \in 1..360
\* the composite key of the claim: type, model, token budget, temperature
\* and whether a credential is present
CompositeKey(config) ==
  [type |-> config.type, model |-> config.model, maxTokens |-> config.maxTokens,
   temperature |-> config.temperature, credential |-> config.apiKey # ""]

\* the cached entries of f whose adapter was created for the composite key
registeredFor(f, key) ==
  {e \in f.providers : CompositeKey(f.instances[e.inst].createdWith) = key}

\* one createProvider call from f to g for a configuration of that key
lazyAndShared(f, g, key) ==
  /\ CompositeKey(g.instances[g.ret.inst].createdWith) = key
  /\ \E e \in g.providers : e.inst = g.ret.inst
  /\ registeredFor(f, key) # {}
       => /\ \A e \in registeredFor(f, key) : g.ret.inst = e.inst
          /\ g.instances = f.instances
  /\ registeredFor(f, key) = {}
       => /\ g.ret.inst = Len(f.instances) + 1
          /\ Len(g.instances) = Len(f.instances) + 1

\* C22: createProvider creates an adapter only on the first request for a
\* composite key (type, model, token budget, temperature, credential
\* presence) and, until clearCache, returns that same instance for every
\* later configuration with an equal key; the instance returned was created
\* for the key of the request, so two configurations with different keys
\* never share an instance.
C22_OneAdapterPerKey ==
  [][factory'.ret.op = "createProvider"
       => lazyAndShared(factory, factory', CompositeKey(factory'.ret.config))]_vars

\* a cached adapter is returned while adapters for two keys are cached
C22_Witness ==
  /\ factory.ret.op = "createProvider"
  /\ ~factory.ret.created
  /\ Cardinality(factory.providers) = 2
  /\ Len(factory.instances) = 2

\* the two configurations differ only in the value of a non-empty credential
onlyCredentialDiffers(a, b) ==
  /\ a.apiKey # ""
  /\ b.apiKey # ""
  /\ a.apiKey # b.apiKey
  /\ [a EXCEPT !.apiKey = b.apiKey] = b

\* one step from f to g: a createProvider call returns the cached adapter of
\* a configuration that differs only in the credential, untouched; a call of
\* an adapter is sent with the credential the adapter was created with
credentialKept(f, g) ==
  /\ g.ret.op = "createProvider"
       => \A e \in f.providers :
            onlyCredentialDiffers(g.ret.config, f.instances[e.inst].createdWith)
              => g.ret.inst = e.inst /\ g.instances = f.instances
  /\ g.ret.op = "parseQuery"
       => g.ret.request.apiKey = g.instances[g.ret.inst].createdWith.apiKey

\* C28: cached adapters are not invalidated when the credential is rotated:
\* createProvider and createFromEnvironment, called with a configuration that
\* differs from a cached one only in the value of a non-empty credential,
\* return the cached instance, and that instance goes on using the
\* credential it was created with.
C28_RotationKeepsCachedAdapter ==
  [][credentialKept(factory, factory')]_vars

\* the factory returns, for a rotated credential, an adapter whose client
\* holds the credential it was created with
C28_Witness ==
  /\ factory.ret.op = "createProvider"
  /\ ~factory.ret.created
  /\ factory.ret.config.apiKey \notin {"", factory.instances[factory.ret.inst].createdWith.apiKey}
  /\ factory.instances[factory.ret.inst].client.apiKey
       = factory.instances[factory.ret.inst].createdWith.apiKey
\* the request a call sends when every value is taken from config
requestOf(config) ==
  Request(Client(config.apiKey, config.timeout, config.maxRetries), config)

\* C23: every parseQuery call started after updateConfig returned uses the
\* updated values (credential, model, token budget, temperature, timeout,
\* retry budget), whether or not the adapter had already served a call.
C23_CallUsesUpdatedConfig ==
  (factory.ret.op = "parseQuery" /\ factory.updates > 0)
    => factory.ret.request = requestOf(factory.instances[factory.ret.inst].config)
\* the calls of adapter i that are in flight
flightsOf(i) ==
  {k \in 1..Len(factory.flights) : factory.flights[k].inst = i}

\* C24: a parseQuery that is in flight on an adapter when updateConfig runs
\* on it is not corrupted: its request was built entirely from one
\* configuration, the one the adapter had before the update, never from a
\* mixture of values of different configurations.
C24_FlightBuiltFromOneConfig ==
  factory.ret.op = "updateConfig"
    => \A k \in flightsOf(factory.ret.inst) :
         factory.flights[k].request = requestOf(factory.flights[k].startConfig)
\* the text "5 milyon 48 ay konut" as the mock adapter sees it: it has
\* digits and the word "ay", and it does not contain "kredi"
FiveMillionText == [kind |-> "string", hasKredi |-> FALSE, hasDigit |-> TRUE, hasTerm |-> TRUE]

\* C25: the mock adapter's parseQuery("5 milyon 48 ay konut") returns credit
\* type Konut, amount 5,000,000, term 48 and a confidence above 0: it
\* extracts the type, amount and term that the text states.
C25_MockExtractsWhatTheTextStates ==
  (run.done /\ run.ptype = MOCK /\ run.text = FiveMillionText)
    => /\ ~run.outcome.threw
       /\ run.outcome.result.creditType = "Konut"
       /\ run.outcome.result.amount = 5000000
       /\ run.outcome.result.term = 48
       /\ run.outcome.result.confidence > 0
\* the fields of a parse result, by the names the adapters give them
ResultFields ==
  {"creditType", "amount", "term", "confidence", "reasoning", "extractedInfo", "uncertainties",
   "isLoanQuery", "provider"}

\* an adapter's result is well formed
wellFormedResponse(r) ==
  /\ DOMAIN r = ResultFields
  /\ r.confidence \in 0..100

\* a result of NaturalLanguageService.parseQuery is well formed
wellFormedParsedQuery(q) ==
  /\ q.hasExtractedInfo
  /\ "provider" \in DOMAIN q
  /\ q.confidence \in 0..100

\* C26: every parse result that an adapter's parseQuery or
\* NaturalLanguageService.parseQuery returns, on success, on a backend
\* failure and when all providers failed, is well formed: its confidence is
\* in [0,1] and all its fields (credit type, amount, term, confidence,
\* reasoning, extracted phrases, uncertainties, isLoanQuery, provider tag)
\* are present.
C26_ResultsWellFormed ==
  /\ (run.done /\ run.ptype # Null /\ ~run.outcome.threw) => wellFormedResponse(run.outcome.result)
  /\ last.attempts > 0
       => /\ ~last.adapter.threw => wellFormedResponse(last.adapter.result)
          /\ wellFormedParsedQuery(last.result)
\* call c enters or leaves tryFallbackProvider in this step
fallbackStep(c) ==
  \/ calls[c].pc = "first" /\ calls'[c].pc = "fallback"
  \/ calls[c].pc = "fallback" /\ calls'[c].pc # "fallback"

\* call c is started in this step on a service that has a provider
startStep(c) ==
  calls[c].pc = "idle" /\ calls'[c].pc = "first" /\ currentProvider # Null

\* C29: a parseQuery that takes the fallback path, whether the fallback
\* succeeds or fails, leaves currentProvider, preferredProviderType and
\* language unchanged, so that the next parseQuery makes its first attempt
\* on the same active provider again.
C29_FallbackKeepsActiveProvider ==
  [][\A c \in Calls :
       /\ fallbackStep(c) => UNCHANGED <<currentProvider, preferredProviderType, language>>
       /\ startStep(c) => calls'[c].firstType = currentProvider]_vars

\* a call has returned the fallback adapter's result and the provider that
\* failed is still the active one
C29_Witness ==
  /\ last.attempts = 2
  /\ ~last.adapter.threw
  /\ last.fallbackType \notin {Null, last.firstType}
  /\ currentProvider = last.firstType
\* a Loan without the fields activate and deactivate may change
fixedPart(loan) ==
  [loan EXCEPT !.isActive = FALSE, !.updatedAt = 0, !.bank.isActive = FALSE, !.bank.updatedAt = 0]

\* C27: after construction the only operations that change a Bank or a Loan
\* are activate and deactivate, and these change only the active flag and
\* updatedAt: id, name, bank, type, interest rate, minAmount, maxAmount,
\* maxTerm, eligibility note and createdAt never change; and
\* minAmount <= maxAmount in every state of a Loan.
C27_OnlyActivationChangesEntities ==
  [][/\ (entity.exists /\ entity'.exists) => fixedPart(entity'.loan) = fixedPart(entity.loan)
     /\ entity'.exists => Le(entity'.loan.minAmount.amount, entity'.loan.maxAmount.amount)]_vars

\* every makeApiRequest call that was started has completed
allCompleted ==
  /\ tls.started > 0
  /\ \A c \in 1..MaxRequests : tls.requests[c].pc \in {"new", "done"}

\* C30: HousingLoanService always restores the process-wide TLS setting:
\* once every makeApiRequest call has completed, overlapping calls included,
\* NODE_TLS_REJECT_UNAUTHORIZED has the value it had before the first call
\* started, and is unset if it was unset.
C30_TlsSettingRestored ==
  allCompleted => tls.value = tls.before

====
